---- MODULE Spec2Model ----
(***************************************************************************)
(* A model of hamsando's domain-name values (src/src/domain.rs), of the     *)
(* simple_dst allocation engine they are built with (src/dst/src/lib.rs),  *)
(* and of the API client and its builder (src/src/client.rs).              *)
(*                                                                         *)
(* Strings are sequences of one-character strings.  Offsets are the 0-based *)
(* byte offsets of the Rust code; Slice(s, a, b) is Rust's s[a..b].         *)
(***************************************************************************)
EXTENDS Integers, Sequences, FiniteSets, TLC

VARIABLES
    input,      \* the text handed to the last parse call
    called,     \* "none", "Domain" or "Root": which parse was called
    result,     \* what that call returned
    view,       \* the reference currently held: shape and fat pointer
    prev,       \* the reference the last accessor was applied to
    heap,       \* the allocator: live blocks, their bytes, calls of alloc/dealloc
    cons,       \* the construction each thread is in: a try_new_dst frame
    boxes,      \* the owning values (Box<T>) the threads hold
    again,      \* the second parse call made while the first value is alive
    builder,    \* the ClientBuilder in use, the setter calls made, what build returned
    client      \* the Client in use, the last operation called and what it did

vars == <<input, called, result, view, prev, heap, cons, boxes, again, builder, client>>

----------------------------------------------------------------------------
(* Bounds of the model *)

\* Short inputs are made of at most this many labels.
MaxLabels == 4

\* The allocator has this many blocks to hand out.
MaxBlocks == 2

\* Setter calls made on one ClientBuilder.
MaxCalls == 4

\* Operations called on one Client.
MaxOps == 2

\* Constructions the threads start, all together.
MaxRuns == 2

\* The longest tail of the values the threads construct.
MaxTail == 2

\* How far from zero, and from the largest length that can fit, the lengths given to
\* layout lie.
MaxNear == 17

----------------------------------------------------------------------------
(* Option, strings *)

None == <<>>
Some(x) == <<x>>
IsSome(o) == Len(o) = 1
Unwrap(o) == o[1]

DOT == "."

Rep(ch, n) == [i \in 1..n |-> ch]

\* Rust's s[a..b]
Slice(s, a, b) == SubSeq(s, a + 1, b)

\* Rust's s[a..]
SliceFrom(s, a) == SubSeq(s, a + 1, Len(s))

\* str::ends_with('.')
ends_with_dot(s) == Len(s) > 0 /\ s[Len(s)] = DOT

SetMax(S) == CHOOSE x \in S : \A y \in S : y <= x
SetMin(S) == CHOOSE x \in S : \A y \in S : x <= y

\* the offsets of the '.' bytes of s
DotOffsets(s) == {i \in 0..(Len(s) - 1) : s[i + 1] = DOT}

\* A variant of rfind_dot that finds the first '.' (str::find) instead of the last
find_dot(s) == IF DotOffsets(s) = {} THEN None ELSE Some(SetMin(DotOffsets(s)))

\* str::rfind('.')
rfind_dot(s) == IF DotOffsets(s) = {} THEN None ELSE Some(SetMax(DotOffsets(s)))

\* str::split('.'): the labels of s, left to right ("" splits into one empty label)
RECURSIVE SplitFrom(_, _)
SplitFrom(s, from) ==
    LET later == {d \in DotOffsets(s) : d >= from}
    IN  IF later = {} THEN <<Slice(s, from, Len(s))>>
        ELSE <<Slice(s, from, SetMin(later))>> \o SplitFrom(s, SetMin(later) + 1)

split_dot(s) == SplitFrom(s, 0)

RECURSIVE Join(_)
Join(labels) ==
    IF Len(labels) = 0 THEN <<>>
    ELSE IF Len(labels) = 1 THEN labels[1]
    ELSE labels[1] \o <<DOT>> \o Join(Tail(labels))

----------------------------------------------------------------------------
(* src/src/domain.rs: constants and the suffix lookup *)

MAX_DOMAIN_LEN == 253
MAX_LABEL_LEN == 63

L_a == <<"a">>
L_com == <<"c", "o", "m">>
L_co == <<"c", "o">>
L_uk == <<"u", "k">>
L_zz == <<"z", "z">>

\* The public suffixes the lookup table of the model knows.
KnownSuffixes == {L_com, L_uk, Join(<<L_co, L_uk>>)}

\* name ends with suffix k on a label boundary
MatchesSuffix(name, k) ==
    /\ Len(name) >= Len(k)
    /\ SliceFrom(name, Len(name) - Len(k)) = k
    /\ (Len(name) = Len(k) \/ name[Len(name) - Len(k)] = DOT)

\* psl's List::find: the longest rule matching the labels from the right; the
\* implicit rule "*" matches the last label alone, and marks it as not known.
psl_find(name) ==
    LET hits == {k \in KnownSuffixes : MatchesSuffix(name, k)}
        labels == split_dot(name)
    IN  IF hits # {}
        THEN [len |-> SetMax({Len(k) : k \in hits}), known |-> TRUE]
        ELSE [len |-> Len(labels[Len(labels)]), known |-> FALSE]

\* psl::suffix(name): None when nothing matched, else the matched bytes (with the
\* trailing '.' of a fully-qualified name) and whether the suffix is known.
psl_suffix(name) ==
    LET fqdn == ends_with_dot(name)
        body == IF fqdn THEN Slice(name, 0, Len(name) - 1) ELSE name
        info == psl_find(body)
        len  == info.len + (IF fqdn THEN 1 ELSE 0)
    IN  IF len = 0 THEN None
        ELSE Some([bytes |-> SliceFrom(name, Len(name) - len), known |-> info.known])

----------------------------------------------------------------------------
(* src/src/domain.rs: parse_domain *)

Ok(v) == [ok |-> TRUE, val |-> v]
Err(e) == [ok |-> FALSE, err |-> e]

\* A variant of get_not_fqdn that keeps the trailing '.'
get_not_fqdn_keep(s) == s

get_not_fqdn(s) == IF ends_with_dot(s) THEN Slice(s, 0, Len(s) - 1) ELSE s

\* A variant of CheckLabels that rejects a label of MAX_LABEL_LEN bytes too
RECURSIVE CheckLabels_ge(_, _, _)
CheckLabels_ge(domain, labels, i) ==
    IF i > Len(labels) THEN None
    ELSE IF Len(labels[i]) = 0
         THEN Some([kind |-> "EmptyLabel", domain |-> domain])
    ELSE IF Len(labels[i]) >= MAX_LABEL_LEN
         THEN Some([kind |-> "TooLongLabel", domain |-> domain, label |-> labels[i]])
    ELSE CheckLabels_ge(domain, labels, i + 1)

\* A variant of CheckLabels whose errors carry the text the labels were split from
RECURSIVE CheckLabels_working(_, _, _)
CheckLabels_working(domain, labels, i) ==
    IF i > Len(labels) THEN None
    ELSE IF Len(labels[i]) = 0
         THEN Some([kind |-> "EmptyLabel", domain |-> Join(labels)])
    ELSE IF Len(labels[i]) > MAX_LABEL_LEN
         THEN Some([kind |-> "TooLongLabel", domain |-> Join(labels), label |-> labels[i]])
    ELSE CheckLabels_working(domain, labels, i + 1)

\* The loop over the labels: the error of the first offending label, or None.
RECURSIVE CheckLabels(_, _, _)
CheckLabels(domain, labels, i) ==
    IF i > Len(labels) THEN None
    ELSE IF Len(labels[i]) = 0
         THEN Some([kind |-> "EmptyLabel", domain |-> domain])
    ELSE IF Len(labels[i]) > MAX_LABEL_LEN
         THEN Some([kind |-> "TooLongLabel", domain |-> domain, label |-> labels[i]])
    ELSE CheckLabels(domain, labels, i + 1)

\* A variant of parse_suffix that compares the length of the input, trailing '.'
\* included, with the length of the suffix
parse_suffix_rawlen(domain, not_fqdn) ==
    LET suffix == psl_suffix(not_fqdn)
    IN  IF ~IsSome(suffix)
        THEN Err([kind |-> "MissingSuffix", domain |-> domain])
        ELSE LET suffix_str == Unwrap(suffix).bytes
                 suffix_len == Len(suffix_str)
                 suffix_separator_idx == Len(not_fqdn) - suffix_len - 1
                 without_suffix == Slice(not_fqdn, 0, suffix_separator_idx)
             IN  IF ~Unwrap(suffix).known
                 THEN Err([kind |-> "UnknownSuffix", domain |-> domain,
                           suffix |-> suffix_str])
                 ELSE IF Len(domain) = suffix_len
                 THEN Err([kind |-> "MissingRoot", domain |-> domain])
                 ELSE Ok(<<rfind_dot(without_suffix), suffix_separator_idx>>)

\* A variant of parse_suffix that counts the separator offset from the end of the
\* input, trailing '.' included
parse_suffix_rawidx(domain, not_fqdn) ==
    LET suffix == psl_suffix(not_fqdn)
    IN  IF ~IsSome(suffix)
        THEN Err([kind |-> "MissingSuffix", domain |-> domain])
        ELSE LET suffix_str == Unwrap(suffix).bytes
                 suffix_len == Len(suffix_str)
                 suffix_separator_idx == Len(domain) - suffix_len - 1
                 without_suffix == Slice(not_fqdn, 0, suffix_separator_idx)
             IN  IF ~Unwrap(suffix).known
                 THEN Err([kind |-> "UnknownSuffix", domain |-> domain,
                           suffix |-> suffix_str])
                 ELSE IF Len(not_fqdn) = suffix_len
                 THEN Err([kind |-> "MissingRoot", domain |-> domain])
                 ELSE Ok(<<rfind_dot(without_suffix), suffix_separator_idx>>)

\* The part of parse_domain after the label loop.
parse_suffix(domain, not_fqdn) ==
    LET suffix == psl_suffix(not_fqdn)
    IN  IF ~IsSome(suffix)
        THEN Err([kind |-> "MissingSuffix", domain |-> domain])
        ELSE LET suffix_str == Unwrap(suffix).bytes
                 suffix_len == Len(suffix_str)
                 suffix_separator_idx == Len(not_fqdn) - suffix_len - 1
                 without_suffix == Slice(not_fqdn, 0, suffix_separator_idx)
             IN  IF ~Unwrap(suffix).known
                 THEN Err([kind |-> "UnknownSuffix", domain |-> domain,
                           suffix |-> suffix_str])
                 ELSE IF Len(not_fqdn) = suffix_len
                 THEN Err([kind |-> "MissingRoot", domain |-> domain])
                 ELSE Ok(<<rfind_dot(without_suffix), suffix_separator_idx>>)

\* A variant of parse_domain that compares the length of the input, trailing '.'
\* included, with MAX_DOMAIN_LEN
parse_domain_rawlen(domain) ==
    LET not_fqdn == get_not_fqdn(domain)
        bad == CheckLabels(domain, split_dot(not_fqdn), 1)
    IN  IF Len(not_fqdn) = 0 THEN Err([kind |-> "Empty"])
        ELSE IF Len(domain) > MAX_DOMAIN_LEN
        THEN Err([kind |-> "TooLong", domain |-> domain])
        ELSE IF IsSome(bad) THEN Err(Unwrap(bad))
        ELSE parse_suffix(domain, not_fqdn)

\* A variant of parse_domain that checks the labels before the length
parse_domain_labels_first(domain) ==
    LET not_fqdn == get_not_fqdn(domain)
        bad == CheckLabels(domain, split_dot(not_fqdn), 1)
    IN  IF Len(not_fqdn) = 0 THEN Err([kind |-> "Empty"])
        ELSE IF IsSome(bad) THEN Err(Unwrap(bad))
        ELSE IF Len(not_fqdn) > MAX_DOMAIN_LEN
        THEN Err([kind |-> "TooLong", domain |-> domain])
        ELSE parse_suffix(domain, not_fqdn)

parse_domain(domain) ==
    LET not_fqdn == get_not_fqdn(domain)
        bad == CheckLabels(domain, split_dot(not_fqdn), 1)
    IN  IF Len(not_fqdn) = 0 THEN Err([kind |-> "Empty"])
        ELSE IF Len(not_fqdn) > MAX_DOMAIN_LEN
        THEN Err([kind |-> "TooLong", domain |-> domain])
        ELSE IF IsSome(bad) THEN Err(Unwrap(bad))
        ELSE parse_suffix(domain, not_fqdn)

----------------------------------------------------------------------------
(* core::alloc::Layout, as used by src/dst/src/lib.rs.  The target is a     *)
(* 32-bit one: usize is 4 bytes and isize::MAX is 2^31 - 1.                  *)

ISIZE_MAX == 2147483647

Layout(size, align) == [size |-> size, align |-> align]

Layout_i16 == Layout(2, 2)
Layout_u32 == Layout(4, 4)
Layout_usize == Layout(4, 4)
Layout_i128 == Layout(16, 16)
Layout_u8 == Layout(1, 1)
Layout_unit == Layout(0, 1)
Layout_u16 == Layout(2, 2)
Layout_opt_usize == Layout(8, 4)

IMax(a, b) == IF a >= b THEN a ELSE b

\* Layout::max_size_for_align
max_size_for_align(align) == ISIZE_MAX - (align - 1)

\* Layout::padding_needed_for
padding_needed_for(size, align) == (align - (size % align)) % align

\* Layout::array::<T>(n)
Layout_array(elem, n) ==
    IF elem.size # 0 /\ n > max_size_for_align(elem.align) \div elem.size
    THEN Err("LayoutError")
    ELSE Ok(Layout(elem.size * n, elem.align))

\* A variant of Layout_extend that places next at the end of l without padding
Layout_extend_packed(l, next) ==
    LET new_align == IMax(l.align, next.align)
        offset == l.size
    IN  IF next.size > max_size_for_align(new_align) - offset
        THEN Err("LayoutError")
        ELSE Ok(<<Layout(offset + next.size, new_align), offset>>)

\* A variant of Layout_extend that also refuses a layout of exactly the largest size
Layout_extend_tight(l, next) ==
    LET new_align == IMax(l.align, next.align)
        pad == padding_needed_for(l.size, next.align)
        offset == l.size + pad
    IN  IF next.size >= max_size_for_align(new_align) - offset
        THEN Err("LayoutError")
        ELSE Ok(<<Layout(offset + next.size, new_align), offset>>)

\* Layout::extend: the combined layout and the offset of next in it
Layout_extend(l, next) ==
    LET new_align == IMax(l.align, next.align)
        pad == padding_needed_for(l.size, next.align)
        offset == l.size + pad
    IN  IF next.size > max_size_for_align(new_align) - offset
        THEN Err("LayoutError")
        ELSE Ok(<<Layout(offset + next.size, new_align), offset>>)

\* Layout::pad_to_align
pad_to_align(l) == Layout(l.size + padding_needed_for(l.size, l.align), l.align)

\* The loop of Type::layout_offsets over fields[1..]: extends the running
\* layout by each field and records the field's offset.
RECURSIVE ExtendAll(_, _, _, _)
ExtendAll(fields, i, layout, offsets) ==
    IF i > Len(fields) THEN Ok(<<pad_to_align(layout), offsets>>)
    ELSE LET e == Layout_extend(layout, fields[i])
         IN  IF ~e.ok THEN e
             ELSE ExtendAll(fields, i + 1, e.val[1], Append(offsets, e.val[2]))

\* Type::layout_offsets(len): header i16, usize, u32 and a tail of i128
layout_offsets(len) ==
    LET slice_layout == Layout_array(Layout_i128, len)
    IN  IF ~slice_layout.ok THEN slice_layout
        ELSE ExtendAll(<<Layout_i16, Layout_usize, Layout_u32, slice_layout.val>>,
                       2, Layout_i16, <<0>>)

\* The same rule for the header of Domain and of Root: Option<usize>, usize, str
name_layout_offsets(len) ==
    LET tail_layout == Layout_array(Layout_u8, len)
    IN  IF ~tail_layout.ok THEN tail_layout
        ELSE ExtendAll(<<Layout_opt_usize, Layout_usize, tail_layout.val>>,
                       2, Layout_opt_usize, <<0>>)

\* str, [()], [u16], the Type of the tests, Domain and Root
Shapes == {"str", "unit", "u16s", "Type", "Domain", "Root"}

\* The element layout of the slice shapes
ElemLayout(shape) ==
    IF shape = "str" THEN Layout_u8
    ELSE IF shape = "unit" THEN Layout_unit
    ELSE Layout_u16

IsSlice(shape) == shape \in {"str", "unit", "u16s"}

\* Dst::layout(len) of each shape
layout(shape, len) ==
    IF IsSlice(shape) THEN Layout_array(ElemLayout(shape), len)
    ELSE LET lo == IF shape = "Type" THEN layout_offsets(len)
                   ELSE name_layout_offsets(len)
         IN  IF lo.ok THEN Ok(lo.val[1]) ELSE lo

\* Dst::retype(ptr, len): the fat pointer; no memory is touched
retype(raw, len) == [addr |-> raw, len |-> len]

----------------------------------------------------------------------------
(* Memory.  A block is a function from byte offsets to the values written   *)
(* there (one cell per field or element); an offset nothing was written to  *)
(* reads as "uninit".                                                       *)

NULL == 0

\* The addresses alloc can return; all are aligned for every layout used.
Addrs == {256 * k : k \in 1..MaxBlocks}

EmptyHeap == [live |-> {}, mem |-> <<>>, nAlloc |-> 0, nDealloc |-> 0]

CellsAt(h, addr) == IF addr \in DOMAIN h.mem THEN h.mem[addr] ELSE <<>>

Cell(cells, o) == IF o \in DOMAIN cells THEN cells[o] ELSE "uninit"

\* ptr::write / ptr::copy_nonoverlapping of the cells `new` into the block at addr
WriteCells(h, addr, new) ==
    IF DOMAIN new = {} THEN h
    ELSE [h EXCEPT !.mem = (addr :> (new @@ CellsAt(h, addr))) @@ h.mem]

\* alloc(layout) returning addr
alloc(h, addr) ==
    [h EXCEPT !.live = @ \cup {addr}, !.mem = (addr :> <<>>) @@ @, !.nAlloc = @ + 1]

\* dealloc(addr, layout)
dealloc(h, addr) ==
    [h EXCEPT !.live = @ \ {addr},
              !.mem = [a \in (DOMAIN @) \ {addr} |-> @[a]],
              !.nDealloc = @ + 1]

\* The cells of n elements of size esize, from offset off
ElemCells(off, esize, elems) ==
    IF esize = 0 THEN <<>> ELSE
    [o \in {off + esize * (i - 1) : i \in 1..Len(elems)} |->
        elems[((o - off) \div esize) + 1]]

\* The elements a reference of length n reads from offset off
ReadElems(cells, off, esize, n) ==
    [i \in 1..n |-> Cell(cells, off + esize * (i - 1))]

\* Field offsets of a #[repr(C)] struct: each field at the next multiple of its
\* alignment after the previous field.
RECURSIVE repr_c_offsets(_, _, _)
repr_c_offsets(fields, i, end) ==
    IF i > Len(fields) THEN <<>>
    ELSE LET off == end + padding_needed_for(end, fields[i].align)
         IN  <<off>> \o repr_c_offsets(fields, i + 1, off + fields[i].size)

\* struct Type { data1: i16, data2: usize, data3: u32, slice: [i128] }
TypeFieldOffsets ==
    repr_c_offsets(<<Layout_i16, Layout_usize, Layout_u32, Layout(0, 16)>>, 1, 0)

\* struct Domain / struct Root { root_separator_idx, suffix_separator_idx, domain }
NameFieldOffsets ==
    repr_c_offsets(<<Layout_opt_usize, Layout_usize, Layout(0, 1)>>, 1, 0)

\* Reading the fields of a Type through a reference
ReadType(h, ptr) ==
    LET cells == CellsAt(h, ptr.addr)
        o == TypeFieldOffsets
    IN  [data1 |-> Cell(cells, o[1]), data2 |-> Cell(cells, o[2]),
         data3 |-> Cell(cells, o[3]),
         slice |-> ReadElems(cells, o[4], Layout_i128.size, ptr.len)]

\* Reading the fields of a Domain or Root through a reference
ReadName(h, ptr) ==
    LET cells == CellsAt(h, ptr.addr)
        o == NameFieldOffsets
    IN  [root_separator_idx |-> Cell(cells, o[1]),
         suffix_separator_idx |-> Cell(cells, o[2]),
         domain |-> ReadElems(cells, o[3], 1, ptr.len)]

\* Reading a str or a slice through a reference; a () is read from no memory
ReadSlice(h, ptr, esize) ==
    IF esize = 0 THEN [i \in 1..ptr.len |-> "()"]
    ELSE ReadElems(CellsAt(h, ptr.addr), 0, esize, ptr.len)

\* The value a reference of the given shape denotes
ReadValue(h, shape, ptr) ==
    IF IsSlice(shape) THEN ReadSlice(h, ptr, ElemLayout(shape).size)
    ELSE IF shape = "Type" THEN ReadType(h, ptr)
    ELSE ReadName(h, ptr)

----------------------------------------------------------------------------
(* Initializers: the closures handed to new_dst / try_new_dst *)

\* Layout::for_value of a Type reference: the layout rustc gives the value
for_value_Type(len) ==
    pad_to_align(Layout(TypeFieldOffsets[4] + Layout_i128.size * len,
                        Layout_i128.align))

\* Type::write_to_raw: TRUE when its closing assert_eq! holds
write_to_raw_assert(ptr, slice) ==
    for_value_Type(ptr.len) = layout_offsets(Len(slice)).val[1]

\* Type::write_to_raw: the four writes
write_to_raw(h, ptr, data1, data2, data3, slice) ==
    LET offsets == layout_offsets(Len(slice)).val[2]
    IN  WriteCells(h, ptr.addr,
            (offsets[1] :> data1) @@ (offsets[2] :> data2) @@ (offsets[3] :> data3)
            @@ ElemCells(offsets[4], Layout_i128.size, slice))

\* The initializer of the derived new_unchecked of Domain and Root: writes the
\* two header fields and copies the string into the tail.
name_write_to_raw(h, ptr, root_separator_idx, suffix_separator_idx, domain) ==
    LET offsets == name_layout_offsets(Len(domain)).val[2]
    IN  WriteCells(h, ptr.addr,
            (offsets[1] :> root_separator_idx) @@ (offsets[2] :> suffix_separator_idx)
            @@ ElemCells(offsets[3], 1, domain))

\* <str as Dst>::clone_to_raw and <[T] as Dst>::clone_to_raw
slice_clone_to_raw(h, elems, esize, ptr) == WriteCells(h, ptr.addr, ElemCells(0, esize, elems))

\* A variant of clone_to_raw that copies one element too few
clone_to_raw_short(h, shape, src, ptr) ==
    LET v == ReadValue(h, shape, src)
    IN  IF IsSlice(shape)
        THEN slice_clone_to_raw(h, SubSeq(v, 1, Len(v) - 1), ElemLayout(shape).size, ptr)
        ELSE write_to_raw(h, ptr, v.data1, v.data2, v.data3,
                          SubSeq(v.slice, 1, Len(v.slice) - 1))

\* Dst::clone_to_raw(self, ptr) of str, [T] and Type; self is read through src
clone_to_raw(h, shape, src, ptr) ==
    LET v == ReadValue(h, shape, src)
    IN  IF IsSlice(shape) THEN slice_clone_to_raw(h, v, ElemLayout(shape).size, ptr)
        ELSE write_to_raw(h, ptr, v.data1, v.data2, v.data3, v.slice)

\* The initializer panicked (the assert_eq! of write_to_raw failed)
Panic == [ok |-> FALSE, panic |-> TRUE]

\* Calling the initializer with ptr: what it returns and the heap it leaves
RunInit(h, shape, ptr, init) ==
    IF init.kind = "fail" THEN [res |-> Err(init.err), heap |-> h]
    ELSE IF init.kind = "elems"
    THEN [res |-> Ok(<<>>),
          heap |-> slice_clone_to_raw(h, init.elems, ElemLayout(shape).size, ptr)]
    ELSE IF init.kind = "type"
    THEN [res |-> IF write_to_raw_assert(ptr, init.slice) THEN Ok(<<>>) ELSE Panic,
          heap |-> write_to_raw(h, ptr, init.data1, init.data2, init.data3, init.slice)]
    ELSE IF init.kind = "name"
    THEN [res |-> Ok(<<>>),
          heap |-> name_write_to_raw(h, ptr, init.root_separator_idx,
                                     init.suffix_separator_idx, init.domain)]
    ELSE [res |-> IF shape = "Type" /\ ~write_to_raw_assert(ptr, ReadType(h, init.src).slice)
                  THEN Panic ELSE Ok(<<>>),
          heap |-> clone_to_raw(h, shape, init.src, ptr)]

----------------------------------------------------------------------------
(* src/dst/src/lib.rs: <Box<T> as TryAllocDst<T>>::try_new_dst, step by step. *)
(* A frame is one call; st = [c |-> frame, h |-> heap].                       *)

IdleFrame ==
    [pc |-> "idle", shape |-> "str", len |-> 0, init |-> [kind |-> "elems", elems |-> <<>>],
     layout |-> None, raw |-> None, ptr |-> None, initres |-> None, ret |-> None,
     trace |-> <<>>, before |-> {}, srcval |-> None, runs |-> 0]

\* Entering try_new_dst(len, init) for shape T
Enter(h, shape, len, init) ==
    [IdleFrame EXCEPT !.pc = "layout", !.shape = shape, !.len = len, !.init = init,
                      !.before = h.live]

\* A variant of StepLayout that goes on to allocate when layout(len) fails
StepLayout_unchecked(st) ==
    LET c == st.c
        l == layout(c.shape, c.len)
    IN  [st EXCEPT !.c.pc = "alloc", !.c.trace = Append(@, "layout"),
                   !.c.layout = Some(IF l.ok THEN l.val ELSE Layout(c.len, 1))]

\* let layout = T::layout(len)?;
StepLayout(st) ==
    LET c == st.c
        l == layout(c.shape, c.len)
    IN  IF ~l.ok
        THEN [st EXCEPT !.c.pc = "done", !.c.trace = Append(@, "layout"),
                        !.c.ret = Some(Err([kind |-> "Layout", e |-> l.err]))]
        ELSE [st EXCEPT !.c.pc = "alloc", !.c.trace = Append(@, "layout"),
                        !.c.layout = Some(l.val)]

\* A variant of StepAlloc that calls alloc for a layout of size zero too
StepAlloc_always(st, a) ==
    LET c == st.c
    IN  IF a = NULL
        THEN [c |-> [c EXCEPT !.pc = "aborted", !.trace = Append(@, "alloc")],
              h |-> [st.h EXCEPT !.nAlloc = @ + 1]]
        ELSE [c |-> [c EXCEPT !.pc = "retype", !.raw = Some(a),
                              !.trace = Append(@, "alloc")],
              h |-> alloc(st.h, a)]

\* A variant of StepAlloc that returns a checked error when alloc returns null
StepAlloc_err(st, a) ==
    LET c == st.c
        l == Unwrap(c.layout)
        p == IF l.size = 0 THEN l.align ELSE a
        h2 == IF l.size = 0 THEN st.h
              ELSE IF a = NULL THEN [st.h EXCEPT !.nAlloc = @ + 1]
              ELSE alloc(st.h, a)
    IN  IF p = NULL
        THEN [c |-> [c EXCEPT !.pc = "done", !.trace = Append(@, "alloc"),
                              !.ret = Some(Err([kind |-> "Alloc", e |-> "null"]))],
              h |-> h2]
        ELSE [c |-> [c EXCEPT !.pc = "retype", !.raw = Some(p),
                              !.trace = Append(@, IF l.size = 0 THEN "dangling" ELSE "alloc")],
              h |-> h2]

\* let raw = if layout.size() == 0 { without_provenance_mut(layout.align()) }
\*           else { alloc(layout) } .unwrap_or_else(|| handle_alloc_error(layout));
\* a is what alloc returns: a free address, or NULL
StepAlloc(st, a) ==
    LET c == st.c
        l == Unwrap(c.layout)
        p == IF l.size = 0 THEN l.align ELSE a
        h2 == IF l.size = 0 THEN st.h
              ELSE IF a = NULL THEN [st.h EXCEPT !.nAlloc = @ + 1]
              ELSE alloc(st.h, a)
    IN  IF p = NULL
        THEN [c |-> [c EXCEPT !.pc = "aborted", !.trace = Append(@, "alloc")], h |-> h2]
        ELSE [c |-> [c EXCEPT !.pc = "retype", !.raw = Some(p),
                              !.trace = Append(@, IF l.size = 0 THEN "dangling" ELSE "alloc")],
              h |-> h2]

\* let ptr = T::retype(raw, len);
StepRetype(st) ==
    [st EXCEPT !.c.pc = "init", !.c.ptr = Some(retype(Unwrap(st.c.raw), st.c.len)),
               !.c.trace = Append(@, "retype")]

\* A variant of StepInit that goes on as if init had returned Ok, without calling it
StepInit_skip(st) ==
    [st EXCEPT !.c.pc = "finish", !.c.initres = Some(Ok(<<>>))]

\* init(ptr) has returned r.res and left the heap r.heap
InitReturned(c, r) ==
    [c |-> [c EXCEPT !.pc = IF r.res = Panic THEN "panicked" ELSE "finish",
                     !.initres = Some(r.res), !.trace = Append(@, "init")],
     h |-> r.heap]

\* init(ptr)
StepInit(st) ==
    InitReturned(st.c, RunInit(st.h, st.c.shape, Unwrap(st.c.ptr), st.c.init))

\* A variant of StepFinish that returns the error without releasing the block
StepFinish_leak(st) ==
    LET c == st.c
        r == Unwrap(c.initres)
    IN  IF r.ok
        THEN [st EXCEPT !.c.pc = "done", !.c.trace = Append(@, "box"),
                        !.c.ret = Some(Ok(Unwrap(c.ptr)))]
        ELSE [st EXCEPT !.c.pc = "done", !.c.trace = Append(@, "err"),
                        !.c.ret = Some(Err([kind |-> "Init", e |-> r.err]))]

\* A variant of StepFinish that, on the error path, releases the lowest block that is
\* allocated, whoever obtained it
StepFinish_lowest(st) ==
    LET c == st.c
        r == Unwrap(c.initres)
        l == Unwrap(c.layout)
    IN  IF r.ok
        THEN [st EXCEPT !.c.pc = "done", !.c.trace = Append(@, "box"),
                        !.c.ret = Some(Ok(Unwrap(c.ptr)))]
        ELSE [c |-> [c EXCEPT !.pc = "done",
                              !.trace = @ \o (IF l.size # 0 THEN <<"dealloc">> ELSE <<>>)
                                          \o <<"err">>,
                              !.ret = Some(Err([kind |-> "Init", e |-> r.err]))],
              h |-> IF l.size # 0 THEN dealloc(st.h, SetMin(st.h.live)) ELSE st.h]

\* match init(ptr) { Ok(()) => (), Err(e) => { if layout.size() != 0 { dealloc }
\*   return Err(Init(e)) } }  Ok(Box::from_raw(ptr))
StepFinish(st) ==
    LET c == st.c
        r == Unwrap(c.initres)
        l == Unwrap(c.layout)
    IN  IF r.ok
        THEN [st EXCEPT !.c.pc = "done", !.c.trace = Append(@, "box"),
                        !.c.ret = Some(Ok(Unwrap(c.ptr)))]
        ELSE [c |-> [c EXCEPT !.pc = "done",
                              !.trace = @ \o (IF l.size # 0 THEN <<"dealloc">> ELSE <<>>)
                                          \o <<"err">>,
                              !.ret = Some(Err([kind |-> "Init", e |-> r.err]))],
              h |-> IF l.size # 0 THEN dealloc(st.h, Unwrap(c.raw)) ELSE st.h]

\* The steps of try_new_dst in the order of its statements; a frame that has
\* returned or was terminated takes no further step
ThenAlloc(st, a) == IF st.c.pc = "alloc" THEN StepAlloc(st, a) ELSE st

ThenRetype(st) == IF st.c.pc = "retype" THEN StepRetype(st) ELSE st

ThenInit(st) == IF st.c.pc = "init" THEN StepInit(st) ELSE st

ThenFinish(st) == IF st.c.pc = "finish" THEN StepFinish(st) ELSE st

\* try_new_dst(len, init) run to its return on one thread
try_new_dst(h, shape, len, init, a) ==
    ThenFinish(ThenInit(ThenRetype(ThenAlloc(
        StepLayout([c |-> Enter(h, shape, len, init), h |-> h]), a))))

\* A variant of new_dst_ret that hands the error of try_new_dst on as it is
new_dst_ret_raw(ret) == ret

\* The blanket impl of AllocDst: new_dst(len, init) wraps init as infallible and
\* maps the error of try_new_dst
new_dst_ret(ret) ==
    IF ~IsSome(ret) THEN ret
    ELSE IF Unwrap(ret).ok THEN ret
    ELSE IF Unwrap(ret).err.kind = "Layout"
    THEN Some(Err([kind |-> "AllocDstError::Layout", e |-> Unwrap(ret).err.e]))
    ELSE None

new_dst(h, shape, len, init, a) ==
    LET st == try_new_dst(h, shape, len, init, a)
    IN  [st EXCEPT !.c.ret = new_dst_ret(@)]

----------------------------------------------------------------------------
(* src/src/domain.rs: Domain and Root *)

\* A variant of new_unchecked that stores the text without its trailing '.'
new_unchecked_trimmed(h, shape, root_separator_idx, suffix_separator_idx, domain, a) ==
    new_dst(h, shape, Len(get_not_fqdn(domain)),
            [kind |-> "name", root_separator_idx |-> root_separator_idx,
             suffix_separator_idx |-> suffix_separator_idx,
             domain |-> get_not_fqdn(domain)], a)

\* The derived Self::new_unchecked(root_separator_idx, suffix_separator_idx, domain):
\* one new_dst of length domain.len() whose initializer writes the three fields.
new_unchecked(h, shape, root_separator_idx, suffix_separator_idx, domain, a) ==
    new_dst(h, shape, Len(domain),
            [kind |-> "name", root_separator_idx |-> root_separator_idx,
             suffix_separator_idx |-> suffix_separator_idx, domain |-> domain], a)

\* What a parse call hands back: its return value, the heap and the engine frame.
\* ret is None when the process was terminated by handle_alloc_error.
Created(st) ==
    [ret |-> IF ~IsSome(st.c.ret) THEN None
             ELSE IF Unwrap(st.c.ret).ok THEN st.c.ret
             ELSE Some(Err([kind |-> "Layout", e |-> Unwrap(st.c.ret).err.e])),
     h |-> st.h, c |-> st.c]

NotCreated(h, e) ==
    [ret |-> Some(Err([kind |-> "Parse", e |-> e])), h |-> h, c |-> IdleFrame]

\* A variant of Domain_parse that builds the value from the working string
Domain_parse_working(h, in, a) ==
    LET r == parse_domain(in)
    IN  IF ~r.ok THEN NotCreated(h, r.err)
        ELSE Created(new_unchecked(h, "Domain", r.val[1], r.val[2], get_not_fqdn(in), a))

\* Domain::parse(input)
Domain_parse(h, in, a) ==
    LET r == parse_domain(in)
    IN  IF ~r.ok THEN NotCreated(h, r.err)
        ELSE Created(new_unchecked(h, "Domain", r.val[1], r.val[2], in, a))

\* A variant of Root_parse without the check for a prefix
Root_parse_unchecked(h, in, a) ==
    LET r == parse_domain(in)
    IN  IF ~r.ok THEN NotCreated(h, r.err)
        ELSE Created(new_unchecked(h, "Root", r.val[1], r.val[2], in, a))

\* A variant of Root_parse that constructs the value before it tests for a prefix
Root_parse_eager(h, in, a) ==
    LET r == parse_domain(in)
    IN  IF ~r.ok THEN NotCreated(h, r.err)
        ELSE IF IsSome(r.val[1])
        THEN [Created(new_unchecked(h, "Root", r.val[1], r.val[2], in, a)) EXCEPT
                 !.ret = Some(Err([kind |-> "Parse",
                                   e |-> [kind |-> "HasPrefix", domain |-> in,
                                          prefix |-> Slice(in, 0, Unwrap(r.val[1]))]]))]
        ELSE Created(new_unchecked(h, "Root", r.val[1], r.val[2], in, a))

\* Root::parse(input)
Root_parse(h, in, a) ==
    LET r == parse_domain(in)
    IN  IF ~r.ok THEN NotCreated(h, r.err)
        ELSE IF IsSome(r.val[1])
        THEN NotCreated(h, [kind |-> "HasPrefix", domain |-> in,
                            prefix |-> Slice(in, 0, Unwrap(r.val[1]))])
        ELSE Created(new_unchecked(h, "Root", r.val[1], r.val[2], in, a))

\* Dst::len(&self) of Domain and Root: the pointer metadata
name_len(ptr) == ptr.len

\* Domain::as_str
Domain_as_str(h, ptr) == ReadName(h, ptr).domain

\* Domain::prefix
Domain_prefix(h, ptr) ==
    LET d == ReadName(h, ptr)
    IN  IF IsSome(d.root_separator_idx)
        THEN Some(Slice(d.domain, 0, Unwrap(d.root_separator_idx)))
        ELSE None

\* A variant of Domain_root whose reference is one byte shorter
Domain_root_short(ptr) == [addr |-> ptr.addr, len |-> name_len(ptr) - 1]

\* Domain::root: the same pointer, read as a Root
Domain_root(ptr) == ptr

\* A variant of Root_as_str that starts at the root separator itself
Root_as_str_from_sep(h, ptr) ==
    LET d == ReadName(h, ptr)
        offset == IF IsSome(d.root_separator_idx)
                  THEN Unwrap(d.root_separator_idx) ELSE 0
    IN  SliceFrom(d.domain, offset)

\* Root::as_str
Root_as_str(h, ptr) ==
    LET d == ReadName(h, ptr)
        offset == IF IsSome(d.root_separator_idx)
                  THEN Unwrap(d.root_separator_idx) + 1 ELSE 0
    IN  SliceFrom(d.domain, offset)

\* Domain::root_str
Domain_root_str(h, ptr) == Root_as_str(h, Domain_root(ptr))

\* A variant of name_suffix that starts at the separator itself
name_suffix_from_sep(h, ptr) ==
    LET d == ReadName(h, ptr)
    IN  SliceFrom(d.domain, d.suffix_separator_idx)

\* Domain::suffix and Root::suffix
name_suffix(h, ptr) ==
    LET d == ReadName(h, ptr)
    IN  SliceFrom(d.domain, d.suffix_separator_idx + 1)

\* as_str of a reference of either shape
as_str(h, v) == IF v.shape = "Root" THEN Root_as_str(h, v.ptr) ELSE Domain_as_str(h, v.ptr)

\* A variant of is_fqdn that never finds the trailing '.'
is_fqdn_never(h, v) == FALSE

\* Domain::is_fqdn and Root::is_fqdn
is_fqdn(h, v) == ends_with_dot(as_str(h, v))

\* A variant of not_fqdn that shortens the reference without testing is_fqdn
not_fqdn_always(h, v) ==
    [v EXCEPT !.ptr = [addr |-> v.ptr.addr, len |-> name_len(v.ptr) - 1]]

\* Domain::not_fqdn and Root::not_fqdn: self, or the pointer with length - 1
not_fqdn(h, v) ==
    IF ~is_fqdn(h, v) THEN v
    ELSE [v EXCEPT !.ptr = [addr |-> v.ptr.addr, len |-> name_len(v.ptr) - 1]]

\* A variant of name_eq that compares the references
name_eq_ptr(h, v, w) == v.ptr = w.ptr

\* PartialEq for Domain and for Root
name_eq(h, v, w) == as_str(h, v) = as_str(h, w)

\* The bytes of the characters of the model
Byte(c) ==
    CASE c = "." -> 46 [] c = "a" -> 97 [] c = "c" -> 99 [] c = "k" -> 107
      [] c = "m" -> 109 [] c = "o" -> 111 [] c = "u" -> 117 [] c = "z" -> 122

\* <str as Ord>::cmp: the order of the first bytes that differ, or of the lengths
RECURSIVE str_cmp(_, _)
str_cmp(s, t) ==
    IF s = <<>> /\ t = <<>> THEN "Equal"
    ELSE IF s = <<>> THEN "Less"
    ELSE IF t = <<>> THEN "Greater"
    ELSE IF Byte(Head(s)) < Byte(Head(t)) THEN "Less"
    ELSE IF Byte(Head(s)) > Byte(Head(t)) THEN "Greater"
    ELSE str_cmp(Tail(s), Tail(t))

\* Ord for Domain and for Root
name_cmp(h, v, w) == str_cmp(as_str(h, v), as_str(h, w))

\* <str as Hash>::hash: what is written to the Hasher, the bytes and then 0xff
str_hash(s) == [i \in 1..Len(s) |-> Byte(s[i])] \o <<255>>

\* Hash for Domain and for Root
name_hash(h, v) == str_hash(as_str(h, v))

----------------------------------------------------------------------------
(* The inputs of parse *)

A63 == Rep("a", MAX_LABEL_LEN)
A64 == Rep("a", MAX_LABEL_LEN + 1)

Labels == {<<>>, L_a, L_com, L_co, L_uk, L_zz, A64}

LabelSeqs == UNION {[1..n -> Labels] : n \in 1..MaxLabels}

ShortInputs == {Join(ls) \o t : ls \in LabelSeqs, t \in {<<>>, <<DOT>>}}

\* Inputs around the length limits
LongLabelSeqs ==
    {<<A63, A63, A63, Rep("a", n), L_com>> : n \in 56..58}
    \cup {<<A63, A63, A63, Rep("a", n), L_zz>> : n \in 58..59}
    \cup {<<A63, A63, A63, A63, <<>>, L_com>>, <<Rep("a", MAX_DOMAIN_LEN + 1), L_com>>,
          <<Rep("a", MAX_DOMAIN_LEN + 1)>>, <<Rep("a", MAX_DOMAIN_LEN)>>,
          <<A63, L_com>>, <<L_a, A63, L_co, L_uk>>}

LongInputs == {Join(ls) \o t : ls \in LongLabelSeqs, t \in {<<>>, <<DOT>>}}

Inputs == ShortInputs \cup LongInputs

----------------------------------------------------------------------------
(* Spec: one thread parses a text, uses the accessors of the value, drops it *)

\* The two threads that construct values concurrently
Procs == {1, 2}

NoView == None

\* No builder() call yet
NoBuilder == [b |-> None, calls |-> <<>>, built |-> None]

\* No Client yet
NoClient == [c |-> None, nOps |-> 0, op |-> None, out |-> None]

ApiVarsUnchanged == UNCHANGED <<builder, client>>

Init ==
    /\ input = <<>>
    /\ called = "none"
    /\ result = None
    /\ view = NoView
    /\ prev = NoView
    /\ heap = EmptyHeap
    /\ cons = [p \in Procs |-> IdleFrame]
    /\ boxes = {}
    /\ again = None
    /\ builder = NoBuilder
    /\ client = NoClient

\* What alloc may return: a block not in use, or NULL
AllocOutcomes(h) == (Addrs \ h.live) \cup {NULL}

Parsed(shape, in, r) ==
    /\ input' = in
    /\ called' = shape
    /\ result' = r.ret
    /\ heap' = r.h
    /\ cons' = [cons EXCEPT ![1] = r.c]
    /\ view' = IF IsSome(r.ret) /\ Unwrap(r.ret).ok
               THEN Some([shape |-> shape, ptr |-> Unwrap(r.ret).val])
               ELSE NoView
    /\ prev' = NoView
    /\ boxes' = IF IsSome(r.ret) /\ Unwrap(r.ret).ok
                THEN {[owner |-> 1, shape |-> shape, ptr |-> Unwrap(r.ret).val]}
                ELSE {}
    /\ again' = None
    /\ ApiVarsUnchanged

DomainParse ==
    /\ called = "none"
    /\ \E in \in Inputs, a \in AllocOutcomes(heap) :
          Parsed("Domain", in, Domain_parse(heap, in, a))

RootParse ==
    /\ called = "none"
    /\ \E in \in Inputs, a \in AllocOutcomes(heap) :
          Parsed("Root", in, Root_parse(heap, in, a))

\* x.not_fqdn() on the reference held
NotFqdn ==
    /\ IsSome(view)
    /\ prev' = view
    /\ view' = Some(not_fqdn(heap, Unwrap(view)))
    /\ UNCHANGED <<input, called, result, heap, cons, boxes, again>>
    /\ ApiVarsUnchanged

\* d.root() on the Domain reference held
RootOf ==
    /\ IsSome(view)
    /\ Unwrap(view).shape = "Domain"
    /\ prev' = view
    /\ view' = Some([shape |-> "Root", ptr |-> Domain_root(Unwrap(view).ptr)])
    /\ UNCHANGED <<input, called, result, heap, cons, boxes, again>>
    /\ ApiVarsUnchanged

\* Drop of a Box<T>: the block goes back unless the value has size zero
drop_box(h, b) ==
    IF layout(b.shape, b.ptr.len).val.size = 0 THEN h ELSE dealloc(h, b.ptr.addr)

\* The Box returned by parse goes out of scope, and the references with it
DropBox ==
    /\ called # "none"
    /\ \E b \in boxes :
          /\ heap' = drop_box(heap, b)
          /\ boxes' = boxes \ {b}
    /\ view' = NoView
    /\ prev' = NoView
    /\ UNCHANGED <<input, called, result, cons, again>>
    /\ ApiVarsUnchanged

Next == DomainParse \/ RootParse \/ NotFqdn \/ RootOf \/ DropBox

Spec == Init /\ [][Next]_vars

----------------------------------------------------------------------------
(* Two parse calls, the second made while the value of the first is alive *)

\* The second parse calls: Root::parse of the text of the root, Domain::parse of
\* that text behind another prefix, the same parse of the input with its trailing
\* '.' added or removed, and the same parse of the same input
SecondKinds(shape) ==
    IF shape = "Domain" THEN {"root", "prefixed", "dotted", "same"} ELSE {"dotted", "same"}

SecondShape(k) == IF k = "root" THEN "Root" ELSE called

SecondText(k) ==
    IF k = "root" THEN Domain_root_str(heap, Unwrap(view).ptr)
    ELSE IF k = "prefixed" THEN L_zz \o <<DOT>> \o Domain_root_str(heap, Unwrap(view).ptr)
    ELSE IF k = "same" THEN input
    ELSE IF ends_with_dot(input) THEN get_not_fqdn(input)
    ELSE input \o <<DOT>>

\* The second parse call returned r; the caller keeps both values and no view
SecondParsed(k, shape, text, r) ==
    /\ again' = Some([kind |-> k, shape |-> shape, input |-> text, ret |-> r.ret])
    /\ heap' = r.h
    /\ cons' = [cons EXCEPT ![2] = r.c]
    /\ boxes' = IF IsSome(r.ret) /\ Unwrap(r.ret).ok
                THEN boxes \cup {[owner |-> 1, shape |-> shape, ptr |-> Unwrap(r.ret).val]}
                ELSE boxes
    /\ view' = NoView
    /\ prev' = NoView
    /\ UNCHANGED <<input, called, result>>
    /\ ApiVarsUnchanged

\* A second parse call while the value of the first is alive
SecondParse ==
    /\ IsSome(view) /\ prev = NoView /\ again = None
    /\ \E k \in SecondKinds(called), a \in AllocOutcomes(heap) :
          \E text \in {SecondText(k)} :
              SecondParsed(k, SecondShape(k), text,
                           IF SecondShape(k) = "Root"
                           THEN Root_parse(heap, text, a)
                           ELSE Domain_parse(heap, text, a))

NextTwo == DomainParse \/ RootParse \/ SecondParse

SpecTwo == Init /\ [][NextTwo]_vars

----------------------------------------------------------------------------
(* SpecAlloc: threads construct values of the shapes of src/dst/src/lib.rs   *)
(* with new_dst / try_new_dst, one step of try_new_dst at a time, and drop   *)
(* them.                                                                     *)

InitErrors == {"E1", "E2"}

\* The elements the initializers of the slice shapes copy
SampleElems(shape, n) ==
    IF shape = "str" THEN SubSeq(<<"h", "i", "!", "?">>, 1, n)
    ELSE IF shape = "unit" THEN [i \in 1..n |-> "()"]
    ELSE SubSeq(<<7, 9, 11, 13>>, 1, n)

\* The arguments of Type::new in the tests
SampleType(n) ==
    [kind |-> "type", data1 |-> -12, data2 |-> 65537, data3 |-> 50,
     slice |-> SubSeq(<<-2, 5, 20, 40>>, 1, n)]

\* A length whose tail of i128 does not fit in isize::MAX bytes
HugeLen == (ISIZE_MAX \div Layout_i128.size) + 1

\* The calls a thread may make: shape, len and initializer
Requests(p) ==
    {[shape |-> s, len |-> n, init |-> [kind |-> "elems", elems |-> SampleElems(s, n)]] :
        s \in {"str", "unit", "u16s"}, n \in {0, MaxTail}}
    \cup {[shape |-> "Type", len |-> n, init |-> SampleType(n)] : n \in {0, MaxTail}}
    \cup {[shape |-> r[1], len |-> r[2], init |-> [kind |-> "fail", err |-> e]] :
            r \in {<<"str", 0>>, <<"str", MaxTail>>, <<"unit", MaxTail>>,
                   <<"u16s", 0>>, <<"Type", MaxTail>>},
            e \in InitErrors}
    \cup {[shape |-> "Type", len |-> HugeLen, init |-> [kind |-> "fail", err |-> "E1"]]}
    \cup {[shape |-> b.shape, len |-> b.ptr.len, init |-> [kind |-> "clone", src |-> b.ptr]] :
            b \in {x \in boxes : x.owner = p}}

\* The constructions started so far
TotalRuns == cons[1].runs + cons[2].runs

\* handle_alloc_error ends the process: no thread takes a step after it
Running == \A p \in Procs : cons[p].pc # "aborted"

NameVarsUnchanged == UNCHANGED <<input, called, result, view, prev, again, builder, client>>

\* A thread calls try_new_dst
Start(p) ==
    /\ Running
    /\ cons[p].pc = "idle"
    /\ TotalRuns < MaxRuns
    /\ \E r \in Requests(p) :
          cons' = [cons EXCEPT ![p] =
                      [Enter(heap, r.shape, r.len, r.init) EXCEPT
                          !.runs = cons[p].runs + 1,
                          !.srcval = IF r.init.kind = "clone"
                                     THEN Some(ReadValue(heap, r.shape, r.init.src))
                                     ELSE None]]
    /\ UNCHANGED <<heap, boxes>>
    /\ NameVarsUnchanged

\* The frame of thread p takes the step op
Advance(p, st) ==
    /\ cons' = [cons EXCEPT ![p] = st.c]
    /\ heap' = st.h
    /\ UNCHANGED boxes
    /\ NameVarsUnchanged

Frame(p) == [c |-> cons[p], h |-> heap]

LayoutStep(p) ==
    /\ Running /\ cons[p].pc = "layout"
    /\ Advance(p, StepLayout(Frame(p)))

AllocStep(p) ==
    /\ Running /\ cons[p].pc = "alloc"
    /\ \E a \in AllocOutcomes(heap) : Advance(p, StepAlloc(Frame(p), a))

RetypeStep(p) ==
    /\ Running /\ cons[p].pc = "retype"
    /\ Advance(p, StepRetype(Frame(p)))

InitStep(p) ==
    /\ Running /\ cons[p].pc = "init"
    /\ Advance(p, StepInit(Frame(p)))

FinishStep(p) ==
    /\ Running /\ cons[p].pc = "finish"
    /\ Advance(p, StepFinish(Frame(p)))

\* try_new_dst returns to its caller, who keeps the Box it got
Return(p) ==
    /\ Running /\ cons[p].pc = "done"
    /\ boxes' = IF Unwrap(cons[p].ret).ok
                THEN boxes \cup {[owner |-> p, shape |-> cons[p].shape,
                                  ptr |-> Unwrap(cons[p].ret).val]}
                ELSE boxes
    /\ cons' = [cons EXCEPT ![p] = [IdleFrame EXCEPT !.runs = cons[p].runs]]
    /\ UNCHANGED heap
    /\ NameVarsUnchanged

\* A thread drops a Box it holds
DropOwned(p) ==
    /\ Running /\ cons[p].pc = "idle"
    /\ \E b \in boxes :
          /\ b.owner = p
          /\ heap' = drop_box(heap, b)
          /\ boxes' = boxes \ {b}
    /\ UNCHANGED cons
    /\ NameVarsUnchanged

NextAlloc ==
    \E p \in Procs :
        \/ Start(p)
        \/ LayoutStep(p)
        \/ AllocStep(p)
        \/ RetypeStep(p)
        \/ InitStep(p)
        \/ FinishStep(p)
        \/ Return(p)
        \/ DropOwned(p)

SpecAlloc == Init /\ [][NextAlloc]_vars

----------------------------------------------------------------------------
(* SpecNew: one thread calls new_dst with an initializer that cannot fail.   *)
(* cons[1] is the frame of the call as new_dst returned; cons[2] is the      *)
(* frame of try_new_dst called directly with the same len, on the same heap, *)
(* with the allocator answering the same.                                    *)

\* A length whose tail of u16 does not fit in isize::MAX bytes
HugeLen16 == (ISIZE_MAX \div Layout_u16.size) + 1

\* The calls of new_dst: shape, len and an initializer returning ()
NewRequests ==
    {[shape |-> s, len |-> n, init |-> [kind |-> "elems", elems |-> SampleElems(s, n)]] :
        s \in {"str", "unit", "u16s"}, n \in 0..MaxTail}
    \cup {[shape |-> "Type", len |-> n, init |-> SampleType(n)] : n \in 0..MaxTail}
    \cup {[shape |-> "Type", len |-> HugeLen, init |-> SampleType(0)],
          [shape |-> "u16s", len |-> HugeLen16,
           init |-> [kind |-> "elems", elems |-> <<>>]]}
    \cup {[shape |-> b.shape, len |-> b.ptr.len, init |-> [kind |-> "clone", src |-> b.ptr]] :
            b \in boxes}

\* new_dst returned the frame and heap n; try_new_dst would have returned t
NewDstDone(shape, n, t) ==
    /\ cons' = [cons EXCEPT ![1] = [n.c EXCEPT !.runs = cons[1].runs + 1], ![2] = t.c]
    /\ heap' = n.h
    /\ boxes' = IF IsSome(n.c.ret) /\ Unwrap(n.c.ret).ok
                THEN boxes \cup {[owner |-> 1, shape |-> shape, ptr |-> Unwrap(n.c.ret).val]}
                ELSE boxes
    /\ NameVarsUnchanged

NewDst ==
    /\ cons[1].pc # "aborted"
    /\ cons[1].runs < MaxRuns
    /\ \E r \in NewRequests, a \in AllocOutcomes(heap) :
          NewDstDone(r.shape, new_dst(heap, r.shape, r.len, r.init, a),
                     try_new_dst(heap, r.shape, r.len, r.init, a))

\* The thread drops a Box it got from new_dst
DropNew ==
    /\ cons[1].pc # "aborted"
    /\ \E b \in boxes :
          /\ heap' = drop_box(heap, b)
          /\ boxes' = boxes \ {b}
    /\ UNCHANGED cons
    /\ NameVarsUnchanged

NextNew == NewDst \/ DropNew

SpecNew == Init /\ [][NextNew]_vars

----------------------------------------------------------------------------
(* src/src/client.rs: ClientBuilder.  A text that is not a domain name is a  *)
(* sequence of chunks: Lit("dns") is the text "dns", Lit("") the empty text. *)

Lit(s) == IF s = "" THEN <<>> ELSE <<s>>

\* url::Url: the part before the path, the path segments, whether the path ends
\* in '/', and whether the URL cannot be a base
DefaultUrl ==
    [origin |-> "https://api.porkbun.com", path |-> <<Lit("api"), Lit("json"), Lit("v3")>>,
     slash |-> TRUE, cannot_be_a_base |-> FALSE]

\* An endpoint without the trailing slash
MockUrl ==
    [origin |-> "http://localhost:8080", path |-> <<Lit("mock"), Lit("v3")>>,
     slash |-> FALSE, cannot_be_a_base |-> FALSE]

\* A URL that cannot be a base
MailUrl ==
    [origin |-> "mailto:", path |-> <<Lit("admin@example.com")>>,
     slash |-> FALSE, cannot_be_a_base |-> TRUE]

DEFAULT_ENDPOINT == "https://api.porkbun.com/api/json/v3/"

\* str::parse::<Url>
Url_parse(text) ==
    IF text = DEFAULT_ENDPOINT THEN Ok(DefaultUrl)
    ELSE IF text = "http://localhost:8080/mock/v3" THEN Ok(MockUrl)
    ELSE IF text = "mailto:admin@example.com" THEN Ok(MailUrl)
    ELSE Err("url::ParseError")

\* The endpoints the callers hand to the setters and to Client::new
Endpoints == {MockUrl, MailUrl}

ApiKeys == {Lit("pk1"), Lit("pk2")}
SecretApiKeys == {Lit("sk1")}

\* ClientBuilder::new
ClientBuilder_new == [endpoint |-> None, apikey |-> None, secretapikey |-> None]

\* ClientBuilder::endpoint
endpoint(self, e) == [self EXCEPT !.endpoint = Some(e)]

\* A variant of endpoint_if_some that stores the option as it is given
endpoint_if_some_assign(self, e) == [self EXCEPT !.endpoint = e]

\* ClientBuilder::endpoint_if_some
endpoint_if_some(self, e) ==
    IF IsSome(e) THEN [self EXCEPT !.endpoint = Some(Unwrap(e))] ELSE self

\* ClientBuilder::apikey
apikey(self, k) == [self EXCEPT !.apikey = Some(k)]

\* ClientBuilder::secretapikey
secretapikey(self, k) == [self EXCEPT !.secretapikey = Some(k)]

\* Client::new (the reqwest client it creates holds no state of the model)
Client_new(e, k, sk) == [endpoint |-> e, apikey |-> k, secretapikey |-> sk]

\* ClientBuilder::build
build(self) ==
    LET dflt == Url_parse(DEFAULT_ENDPOINT)
    IN  IF ~IsSome(self.endpoint) /\ ~dflt.ok
        THEN Err([kind |-> "UrlParse", e |-> dflt.err])
        ELSE IF ~IsSome(self.apikey)
        THEN Err([kind |-> "MissingField", field |-> "apikey"])
        ELSE IF ~IsSome(self.secretapikey)
        THEN Err([kind |-> "MissingField", field |-> "secretapikey"])
        ELSE Ok(Client_new(IF IsSome(self.endpoint) THEN Unwrap(self.endpoint)
                           ELSE dflt.val,
                           Unwrap(self.apikey), Unwrap(self.secretapikey)))

----------------------------------------------------------------------------
(* SpecBuilder: a caller takes a builder, calls setters on it and builds *)

\* Client::builder()
Builder ==
    /\ builder = NoBuilder
    /\ builder' = [NoBuilder EXCEPT !.b = Some(ClientBuilder_new)]
    /\ UNCHANGED <<input, called, result, view, prev, heap, cons, boxes, again, client>>

\* The builder after the setter call f(arg), with the call noted
Called(f, arg, b2) ==
    /\ IsSome(builder.b)
    /\ Len(builder.calls) < MaxCalls
    /\ builder' = [builder EXCEPT !.b = Some(b2),
                                  !.calls = Append(@, [f |-> f, arg |-> arg])]
    /\ UNCHANGED <<input, called, result, view, prev, heap, cons, boxes, again, client>>

SetEndpoint ==
    \E e \in Endpoints :
        IsSome(builder.b) /\ Called("endpoint", e, endpoint(Unwrap(builder.b), e))

SetEndpointIfSome ==
    \E e \in {None} \cup {Some(u) : u \in Endpoints} :
        IsSome(builder.b)
        /\ Called("endpoint_if_some", e, endpoint_if_some(Unwrap(builder.b), e))

SetApikey ==
    \E k \in ApiKeys :
        IsSome(builder.b) /\ Called("apikey", k, apikey(Unwrap(builder.b), k))

SetSecretapikey ==
    \E k \in SecretApiKeys :
        IsSome(builder.b) /\ Called("secretapikey", k, secretapikey(Unwrap(builder.b), k))

\* build() consumes the builder
Build ==
    /\ IsSome(builder.b)
    /\ builder' = [builder EXCEPT !.b = None, !.built = Some(build(Unwrap(builder.b)))]
    /\ UNCHANGED <<input, called, result, view, prev, heap, cons, boxes, again, client>>

NextBuilder ==
    Builder \/ SetEndpoint \/ SetEndpointIfSome \/ SetApikey \/ SetSecretapikey \/ Build

SpecBuilder == Init /\ [][NextBuilder]_vars

----------------------------------------------------------------------------
(* src/src/client.rs: Client and its DNS operations *)

\* addr::domain::Name: the text of a valid name with the public suffix found when
\* it was parsed; name.to_string() is the text
Name(full) == [full |-> full, suffix |-> psl_suffix(full)]

Name_to_string(name) == name.full

\* Name::root: the suffix with the label before it, None when there is no such label
Name_root(name) ==
    IF ~IsSome(name.suffix) \/ Len(Unwrap(name.suffix).bytes) = Len(name.full) THEN None
    ELSE LET before == Slice(name.full, 0,
                             Len(name.full) - Len(Unwrap(name.suffix).bytes) - 1)
         IN  Some(SliceFrom(name.full, IF IsSome(rfind_dot(before))
                                       THEN Unwrap(rfind_dot(before)) + 1 ELSE 0))

\* Name::prefix: the text before the root and its '.', None when there is none
Name_prefix(name) ==
    IF ~IsSome(Name_root(name)) \/ Len(Unwrap(Name_root(name))) = Len(name.full) THEN None
    ELSE Some(Slice(name.full, 0, Len(name.full) - Len(Unwrap(Name_root(name))) - 1))

\* split_domain(name): (prefix, root)
split_domain(name) ==
    LET root == Name_root(name)
    IN  IF ~IsSome(root)
        THEN Err([kind |-> "MissingRoot", domain |-> Name_to_string(name)])
        ELSE Ok(<<Name_prefix(name), Unwrap(root)>>)

\* Url::join(&format!("{p}/")) for a path section p
Url_join(u, p) ==
    LET rel == p \o <<"/">>
        dir == IF u.slash THEN u.path ELSE SubSeq(u.path, 1, Len(u.path) - 1)
    IN  IF u.cannot_be_a_base THEN Err("url::ParseError")
        ELSE Ok([u EXCEPT !.path = dir \o <<SubSeq(rel, 1, Len(rel) - 1)>>,
                          !.slash = TRUE])

\* The try_fold of build_url over the path sections that are not empty
RECURSIVE JoinSections(_, _, _)
JoinSections(acc, path, i) ==
    IF i > Len(path) THEN Ok(acc)
    ELSE IF Len(path[i]) = 0 THEN JoinSections(acc, path, i + 1)
    ELSE LET r == Url_join(acc, path[i])
         IN  IF r.ok THEN JoinSections(r.val, path, i + 1) ELSE r

\* Client::build_url
build_url(self, path) == JoinSections(self.endpoint, path, 1)

\* Payload::new
Payload_new(k, sk) == [x \in {"apikey", "secretapikey"} |-> IF x = "apikey" THEN k ELSE sk]

\* Payload::add
add(payload, key, value) ==
    [x \in DOMAIN payload \cup {key} |-> IF x = key THEN value ELSE payload[x]]

\* Payload::add_if_some
add_if_some(payload, key, value) ==
    IF IsSome(value) THEN add(payload, key, Unwrap(value)) ELSE payload

\* Client::payload
payload(self) == Payload_new(self.apikey, self.secretapikey)

\* What the server does with a POST: no answer, a status other than 200, a body
\* that is not the JSON expected, or the JSON expected
Responses == {"unreachable", "400", "200 bad body", "200"}

\* Client::send_request(url, payload): what it returns, given the answer
send_request(self, url, body, resp, field) ==
    IF resp = "unreachable" THEN Err([kind |-> "Reqwest"])
    ELSE IF resp = "400" THEN Err([kind |-> "Porkbun", status |-> resp])
    ELSE IF resp = "200 bad body" THEN Err([kind |-> "Reqwest"])
    ELSE Ok(field)

\* What one operation did: its return value, the URLs it built, the requests it sent
Outcome(ret, urls, reqs) == [ret |-> ret, urls |-> urls, reqs |-> reqs]

\* ClientError::Domain(e), returned before any URL is built
DomainErr(e) == Outcome(Err([kind |-> "Domain", e |-> e]), <<>>, <<>>)

\* The rest of an operation: let url = self.build_url(..)?; .. self.send_request(url, payload)
Post(self, path, body, resp, field) ==
    LET url == build_url(self, path)
    IN  IF ~url.ok THEN Outcome(Err([kind |-> "UrlParse", e |-> url.err]), <<url>>, <<>>)
        ELSE Outcome(send_request(self, url.val, body, resp, field), <<url>>,
                     <<[url |-> url.val, json |-> body]>>)

\* record::Type::as_str and Content::type_as_str: the variant in upper case
type_as_str(t) ==
    IF t = "Mx" THEN Lit("MX") ELSE IF t = "Txt" THEN Lit("TXT") ELSE Lit("A")

\* Content::value_to_string
value_to_string(content) == content.value

\* i64::to_string
i64_to_string(n) == Lit(ToString(n))

\* Client::create_dns
create_dns(self, domain, content, ttl, prio, resp) ==
    LET sd == split_domain(domain)
    IN  IF ~sd.ok THEN DomainErr(sd.err)
        ELSE Post(self, <<Lit("dns"), Lit("create"), sd.val[2]>>,
                  add_if_some(add_if_some(add_if_some(
                      add(add(payload(self), "type", type_as_str(content.type)),
                          "content", value_to_string(content)),
                      "name", sd.val[1]), "ttl", ttl), "prio", prio),
                  resp, "id")

\* Client::edit_dns
edit_dns(self, domain, id, content, ttl, prio, resp) ==
    LET sd == split_domain(domain)
    IN  IF ~sd.ok THEN DomainErr(sd.err)
        ELSE Post(self, <<Lit("dns"), Lit("edit"), sd.val[2], i64_to_string(id)>>,
                  add_if_some(add_if_some(add_if_some(
                      add(add(payload(self), "type", type_as_str(content.type)),
                          "content", value_to_string(content)),
                      "name", sd.val[1]), "ttl", ttl), "prio", prio),
                  resp, "()")

\* Option<&str>::unwrap_or("")
unwrap_or_empty(o) == IF IsSome(o) THEN Unwrap(o) ELSE Lit("")

\* Client::edit_dns_by_name_type
edit_dns_by_name_type(self, domain, content, ttl, prio, resp) ==
    LET sd == split_domain(domain)
    IN  IF ~sd.ok THEN DomainErr(sd.err)
        ELSE Post(self, <<Lit("dns"), Lit("editByNameType"), sd.val[2],
                          type_as_str(content.type), unwrap_or_empty(sd.val[1])>>,
                  add_if_some(add_if_some(
                      add(payload(self), "content", value_to_string(content)),
                      "ttl", ttl), "prio", prio),
                  resp, "()")

\* A variant of delete_dns without the test for a prefix
delete_dns_any(self, domain, id, resp) ==
    LET sd == split_domain(domain)
    IN  IF ~sd.ok THEN DomainErr(sd.err)
        ELSE Post(self, <<Lit("dns"), Lit("delete"), sd.val[2], i64_to_string(id)>>,
                  payload(self), resp, "()")

\* Client::delete_dns
delete_dns(self, domain, id, resp) ==
    LET sd == split_domain(domain)
    IN  IF ~sd.ok THEN DomainErr(sd.err)
        ELSE IF IsSome(sd.val[1])
        THEN DomainErr([kind |-> "HasPrefix", domain |-> Name_to_string(domain)])
        ELSE Post(self, <<Lit("dns"), Lit("delete"), sd.val[2], i64_to_string(id)>>,
                  payload(self), resp, "()")

\* Client::delete_dns_by_name_type
delete_dns_by_name_type(self, domain, type, resp) ==
    LET sd == split_domain(domain)
    IN  IF ~sd.ok THEN DomainErr(sd.err)
        ELSE Post(self, <<Lit("dns"), Lit("deleteByNameType"), sd.val[2],
                          type_as_str(type), unwrap_or_empty(sd.val[1])>>,
                  payload(self), resp, "()")

\* Client::retrieve_dns
retrieve_dns(self, domain, id, resp) ==
    LET sd == split_domain(domain)
    IN  IF ~sd.ok THEN DomainErr(sd.err)
        ELSE IF IsSome(sd.val[1])
        THEN DomainErr([kind |-> "HasPrefix", domain |-> Name_to_string(domain)])
        ELSE Post(self, <<Lit("dns"), Lit("retrieve"), sd.val[2],
                          IF IsSome(id) THEN i64_to_string(Unwrap(id)) ELSE Lit("")>>,
                  payload(self), resp, "records")

\* Client::retrieve_dns_by_name_type
retrieve_dns_by_name_type(self, domain, type, resp) ==
    LET sd == split_domain(domain)
    IN  IF ~sd.ok THEN DomainErr(sd.err)
        ELSE Post(self, <<Lit("dns"), Lit("retrieveByNameType"), sd.val[2],
                          type_as_str(type), unwrap_or_empty(sd.val[1])>>,
                  payload(self), resp, "records")

----------------------------------------------------------------------------
(* SpecClient: a caller makes a Client and calls its DNS operations *)

\* The names the operations are called with
Names ==
    {Name(Join(ls)) :
        ls \in {<<L_com>>, <<L_co, L_uk>>, <<L_zz>>, <<L_a, L_com>>, <<L_a, L_co, L_uk>>,
                <<L_a, L_zz>>, <<L_a, L_a, L_com>>, <<L_co, L_a, L_co, L_uk>>}}

\* The record contents, types, ids and ttls they are called with; prio is None
Contents == {[type |-> "Txt", value |-> Lit("hello")]}
Types == {"A", "Mx"}
Ids == {7}
Ttls == {None, Some(600)}

\* Client::new(endpoint, apikey, secretapikey)
ClientNew ==
    /\ client = NoClient
    /\ \E e \in Endpoints \cup {DefaultUrl}, k \in ApiKeys, sk \in SecretApiKeys :
          client' = [NoClient EXCEPT !.c = Some(Client_new(e, k, sk))]
    /\ UNCHANGED <<input, called, result, view, prev, heap, cons, boxes, again, builder>>

\* The operation op was called with the name domain and did out
Did(op, domain, out) ==
    /\ client' = [client EXCEPT !.nOps = @ + 1, !.op = Some([name |-> op, domain |-> domain]),
                                !.out = Some(out)]
    /\ UNCHANGED <<input, called, result, view, prev, heap, cons, boxes, again, builder>>

CanCall == IsSome(client.c) /\ client.nOps < MaxOps

CreateDns ==
    /\ CanCall
    /\ \E d \in Names, c \in Contents, ttl \in Ttls, resp \in Responses :
          Did("create_dns", d, create_dns(Unwrap(client.c), d, c, ttl, None, resp))

EditDns ==
    /\ CanCall
    /\ \E d \in Names, id \in Ids, c \in Contents, ttl \in Ttls, resp \in Responses :
          Did("edit_dns", d, edit_dns(Unwrap(client.c), d, id, c, ttl, None, resp))

EditDnsByNameType ==
    /\ CanCall
    /\ \E d \in Names, c \in Contents, ttl \in Ttls, resp \in Responses :
          Did("edit_dns_by_name_type", d,
              edit_dns_by_name_type(Unwrap(client.c), d, c, ttl, None, resp))

DeleteDns ==
    /\ CanCall
    /\ \E d \in Names, id \in Ids, resp \in Responses :
          Did("delete_dns", d, delete_dns(Unwrap(client.c), d, id, resp))

DeleteDnsByNameType ==
    /\ CanCall
    /\ \E d \in Names, t \in Types, resp \in Responses :
          Did("delete_dns_by_name_type", d,
              delete_dns_by_name_type(Unwrap(client.c), d, t, resp))

RetrieveDns ==
    /\ CanCall
    /\ \E d \in Names, id \in {None} \cup {Some(i) : i \in Ids}, resp \in Responses :
          Did("retrieve_dns", d, retrieve_dns(Unwrap(client.c), d, id, resp))

RetrieveDnsByNameType ==
    /\ CanCall
    /\ \E d \in Names, t \in Types, resp \in Responses :
          Did("retrieve_dns_by_name_type", d,
              retrieve_dns_by_name_type(Unwrap(client.c), d, t, resp))

NextClient ==
    \/ ClientNew
    \/ CreateDns
    \/ EditDns
    \/ EditDnsByNameType
    \/ DeleteDns
    \/ DeleteDnsByNameType
    \/ RetrieveDns
    \/ RetrieveDnsByNameType

SpecClient == Init /\ [][NextClient]_vars

----------------------------------------------------------------------------
(* Dst::layout(len) on its own, for lengths near zero and near the largest that fit *)

\* The layout of one element of the tail of each shape
TailElem(shape) ==
    IF IsSlice(shape) THEN ElemLayout(shape)
    ELSE IF shape = "Type" THEN Layout_i128
    ELSE Layout_u8

\* The lengths layout is called with: up to MaxNear, and within MaxNear of the
\* number of tail elements that fill isize::MAX bytes
LayoutLens(shape) ==
    LET edge == IF TailElem(shape).size = 0 THEN ISIZE_MAX
                ELSE ISIZE_MAX \div TailElem(shape).size
    IN  (0..MaxNear)
        \cup {edge - k : k \in 0..MaxNear}
        \cup {edge + k : k \in {j \in 1..MaxNear : edge <= ISIZE_MAX - j}}

\* The first statement of try_new_dst, let layout = T::layout(len)?, for a shape
\* and a length
LayoutOf ==
    /\ \E shape \in Shapes : \E n \in LayoutLens(shape) :
          cons' = [cons EXCEPT ![1] =
                      StepLayout([c |-> Enter(heap, shape, n, [kind |-> "fail", err |-> "E1"]),
                                  h |-> heap]).c]
    /\ UNCHANGED <<heap, boxes>>
    /\ NameVarsUnchanged

NextLayout == LayoutOf

SpecLayout == Init /\ [][NextLayout]_vars

----------------------------------------------------------------------------
(* Properties of parsing, checked under Spec *)

\* The last parse call returned an owned value that is still alive
ParsedOk ==
    /\ called # "none" /\ IsSome(result) /\ Unwrap(result).ok
    /\ \E b \in boxes : b.ptr = Unwrap(result).val

\* The reference to the value as parse returned it
Val == [shape |-> called, ptr |-> Unwrap(result).val]

\* The last parse call returned this parse error
ParseErr == IF IsSome(result) /\ ~Unwrap(result).ok /\ Unwrap(result).err.kind = "Parse"
            THEN Some(Unwrap(result).err.e) ELSE None

ParseErrKind == IF IsSome(ParseErr) THEN Unwrap(ParseErr).kind ELSE "none"

\* The input without one trailing '.', if it has one
Working(s) == IF Len(s) > 0 /\ s[Len(s)] = DOT THEN SubSeq(s, 1, Len(s) - 1) ELSE s

HasDot(s) == \E i \in 1..Len(s) : s[i] = DOT

\* The offset of the last '.' of s
LastDot(s) == CHOOSE i \in 0..(Len(s) - 1) : s[i + 1] = DOT /\ \A j \in (i + 2)..Len(s) : s[j] # DOT

C2_PrefixAndRoot ==
    (called = "Domain" /\ ParsedOk) =>
        LET s == Domain_as_str(heap, Val.ptr)
            ssi == ReadName(heap, Val.ptr).suffix_separator_idx
            before == SubSeq(s, 1, ssi)
            root == Root_as_str(heap, Domain_root(Val.ptr))
            rootLabel == SubSeq(root, 1, Len(root) - (Len(s) - ssi))
        IN  IF ~HasDot(before)
            THEN /\ Domain_prefix(heap, Val.ptr) = None
                 /\ root = s
            ELSE LET p == SubSeq(before, 1, LastDot(before))
                 IN  /\ Domain_prefix(heap, Val.ptr) = Some(p)
                     /\ Len(rootLabel) > 0 /\ ~HasDot(rootLabel)
                     /\ s = p \o <<DOT>> \o root

\* a Domain with a prefix of two labels
C2_Witness ==
    /\ called = "Domain" /\ ParsedOk
    /\ IsSome(Domain_prefix(heap, Val.ptr))
    /\ HasDot(Unwrap(Domain_prefix(heap, Val.ptr)))

\* The text of the public suffix the lookup of parse_domain matched for the input
MatchedSuffix(s) == Unwrap(psl_suffix(Working(s))).bytes

C8_NotFqdnIdempotent ==
    IsSome(view) =>
        LET x == Unwrap(view)
        IN  /\ not_fqdn(heap, not_fqdn(heap, x)) = not_fqdn(heap, x)
            /\ name_eq(heap, not_fqdn(heap, not_fqdn(heap, x)), not_fqdn(heap, x))
            /\ ~is_fqdn(heap, not_fqdn(heap, x))

\* not_fqdn() was applied to a fully-qualified reference and shortened it
C8_Witness ==
    /\ IsSome(prev) /\ IsSome(view)
    /\ is_fqdn(heap, Unwrap(prev))
    /\ Unwrap(view) = not_fqdn(heap, Unwrap(prev))
    /\ Unwrap(view).ptr.len = Unwrap(prev).ptr.len - 1

\* C9: Domain::parse and Root::parse fail with Empty exactly when the working
\* string is empty, that is for the inputs "" and "." and no other.
C9_EmptyIff ==
    called # "none" =>
        (ParseErr = Some([kind |-> "Empty"]) <=> input \in {<<>>, <<DOT>>})

\* parse(".") failed with Empty
C9_Witness == called # "none" /\ input = <<DOT>> /\ ParseErrKind = "Empty"

\* C10: for a non-empty working string, parse fails with TooLong iff the working
\* length exceeds 253; 253 bytes, and 254 bytes ending in '.', are not TooLong.
C10_TooLongIff ==
    (called # "none" /\ Len(Working(input)) # 0) =>
        (ParseErrKind = "TooLong" <=> Len(Working(input)) > 253)

\* a text of 254 bytes ending in '.' was accepted
C10_Witness ==
    /\ ParsedOk /\ Len(input) = 254 /\ ends_with_dot(input)

\* The labels of the working string w, by the offsets of their first bytes
LabelStarts(w) == {0} \cup {d + 1 : d \in DotOffsets(w)}

\* The label of w that starts at offset st
LabelAt(w, st) ==
    SubSeq(w, st + 1, SetMin({d \in DotOffsets(w) : d >= st} \cup {Len(w)}))

\* The offsets of the labels that are empty or longer than 63 bytes
Offending(w) ==
    {st \in LabelStarts(w) : Len(LabelAt(w, st)) = 0 \/ Len(LabelAt(w, st)) > 63}

\* The working string passes the length test
LengthOk(s) == Len(Working(s)) >= 1 /\ Len(Working(s)) <= 253

\* C11: for a working string of 1..253 bytes, parse fails with EmptyLabel if the
\* leftmost offending label is empty and with TooLongLabel carrying that label if
\* the leftmost offending label is longer than 63 bytes; a label of exactly 63
\* bytes is accepted, and without an offending label neither error is returned.
C11_LeftmostLabel ==
    (called # "none" /\ LengthOk(input)) =>
        LET w == Working(input)
            first == LabelAt(w, SetMin(Offending(w)))
        IN  IF Offending(w) = {}
            THEN ParseErrKind \notin {"EmptyLabel", "TooLongLabel"}
            ELSE IF Len(first) = 0
            THEN ParseErr = Some([kind |-> "EmptyLabel", domain |-> input])
            ELSE ParseErr = Some([kind |-> "TooLongLabel", domain |-> input,
                                  label |-> first])

\* parse rejected a text for a label of 64 bytes that has an empty label after it
C11_Witness ==
    /\ called # "none" /\ ParseErrKind = "TooLongLabel"
    /\ Len(Unwrap(ParseErr).label) = 64
    /\ \E st \in Offending(Working(input)) : Len(LabelAt(Working(input), st)) = 0

\* C12: for an input that passes the length and label checks and whose matched
\* suffix is a known public suffix, parse fails with MissingRoot iff the working
\* string consists only of that suffix, with and without a trailing '.'.
C12_MissingRootIff ==
    (/\ called # "none" /\ IsSome(result)
     /\ LengthOk(input) /\ Offending(Working(input)) = {}
     /\ MatchedSuffix(input) \in KnownSuffixes) =>
        /\ ParseErrKind = "MissingRoot" <=> Working(input) = MatchedSuffix(input)
        /\ ParseErrKind = "MissingRoot" =>
              ParseErr = Some([kind |-> "MissingRoot", domain |-> input])

\* parse("co.uk.") failed with MissingRoot
C12_Witness ==
    /\ called # "none" /\ ParseErrKind = "MissingRoot"
    /\ input = Join(<<L_co, L_uk>>) \o <<DOT>>

\* The parse error has a field domain
CarriesDomain(e) == "domain" \in DOMAIN e

\* C13 as claimed: every error returned by Domain::parse or Root::parse, of every
\* kind, carries the original input text unmodified.
C13_EveryErrorCarriesInput ==
    IsSome(ParseErr) =>
        CarriesDomain(Unwrap(ParseErr)) /\ Unwrap(ParseErr).domain = input

\* C13 as amended: every error of a kind other than Empty carries the original
\* input text unmodified, trailing '.' included; Empty carries no text, and is
\* returned for the inputs "" and "." alike.
C13_ErrorCarriesInput ==
    IsSome(ParseErr) =>
        IF ParseErrKind = "Empty"
        THEN Unwrap(ParseErr) = [kind |-> "Empty"]
        ELSE /\ CarriesDomain(Unwrap(ParseErr))
             /\ Unwrap(ParseErr).domain = input
             /\ ParseErrKind \in {"TooLong", "EmptyLabel", "TooLongLabel", "MissingSuffix",
                                  "UnknownSuffix", "MissingRoot", "HasPrefix"}

\* a text ending in '.' was rejected for an empty label, and the error has the '.'
C13_Witness ==
    /\ called # "none" /\ ParseErrKind = "EmptyLabel"
    /\ ends_with_dot(input) /\ Len(input) > 2
    /\ Unwrap(ParseErr).domain = input

FirstFailure(shape, s) ==
    LET w == Working(s)
        m == psl_suffix(w)
        before == SubSeq(w, 1, Len(w) - Len(Unwrap(m).bytes) - 1)
    IN  IF Len(w) = 0 THEN "Empty"
        ELSE IF Len(w) > 253 THEN "TooLong"
        ELSE IF Offending(w) # {}
        THEN (IF Len(LabelAt(w, SetMin(Offending(w)))) = 0
              THEN "EmptyLabel" ELSE "TooLongLabel")
        ELSE IF ~IsSome(m) THEN "MissingSuffix"
        ELSE IF Unwrap(m).bytes \notin KnownSuffixes THEN "UnknownSuffix"
        ELSE IF Unwrap(m).bytes = w THEN "MissingRoot"
        ELSE IF shape = "Root" /\ HasDot(before) THEN "HasPrefix"
        ELSE "none"

\* C19: parsing is first-failure-wins in the fixed order Empty, TooLong, the label
\* checks (leftmost offending label), MissingSuffix, UnknownSuffix, MissingRoot,
\* then HasPrefix (Root only): the error returned is that of the first check in
\* this order that the input fails, and no error when it fails none.
C19_FirstFailureWins ==
    (called # "none" /\ IsSome(result)) =>
        /\ ParseErrKind = FirstFailure(called, input)
        /\ Unwrap(result).ok <=> FirstFailure(called, input) = "none"

\* a text longer than 253 bytes that has an empty label was rejected as TooLong
C19_Witness ==
    /\ called # "none" /\ ParseErrKind = "TooLong"
    /\ \E st \in Offending(Working(input)) : Len(LabelAt(Working(input), st)) = 0

\* C22: every value returned by Domain::parse or Root::parse has a '.' at
\* suffix_separator_idx, with suffix_separator_idx >= 1 and suffix_separator_idx + 1
\* below the length of the working string, so that root label and suffix are
\* non-empty; when root_separator_idx is Some(r) there is a '.' at r and
\* r < suffix_separator_idx; every stored index is below the index of the last
\* character of the working string.
C22_StoredIndices ==
    ParsedOk =>
        LET d == ReadName(heap, Val.ptr)
            w == Working(d.domain)
            s == d.suffix_separator_idx
            last == Len(w) - 1
        IN  /\ d.domain = input
            /\ s \in Nat /\ s >= 1 /\ s + 1 < Len(w)
            /\ w[s + 1] = DOT
            /\ s < last
            /\ IsSome(d.root_separator_idx) =>
                  LET r == Unwrap(d.root_separator_idx)
                  IN  /\ r \in Nat /\ r < s /\ r < last
                      /\ w[r + 1] = DOT

\* Domain::parse returned a value for a fully-qualified input with a prefix and a
\* suffix of two labels
C22_Witness ==
    /\ ParsedOk /\ called = "Domain"
    /\ input = Join(<<L_a, L_a, L_co, L_uk>>) \o <<DOT>>
    /\ ReadName(heap, Val.ptr).root_separator_idx = Some(1)
    /\ ReadName(heap, Val.ptr).suffix_separator_idx = 3

\* C23: not_fqdn on a value that is not fully qualified returns the same value
\* unchanged; on a fully-qualified value it returns a view whose len() is one
\* less, whose stored separator indices are the same, whose prefix() is that of
\* the original and whose as_str() is that of the original without its last
\* character; the original value is not modified.
C23_NotFqdnView ==
    /\ []((/\ IsSome(prev) /\ IsSome(view) /\ boxes # {}
           /\ Unwrap(prev).shape = Unwrap(view).shape) =>
            LET x == Unwrap(prev)
                y == Unwrap(view)
                s == as_str(heap, x)
            IN  IF s = <<>> \/ s[Len(s)] # DOT
                THEN y = x
                ELSE /\ name_len(y.ptr) = name_len(x.ptr) - 1
                     /\ y.ptr.addr = x.ptr.addr
                     /\ ReadName(heap, y.ptr).root_separator_idx
                            = ReadName(heap, x.ptr).root_separator_idx
                     /\ ReadName(heap, y.ptr).suffix_separator_idx
                            = ReadName(heap, x.ptr).suffix_separator_idx
                     /\ x.shape = "Domain" =>
                            Domain_prefix(heap, y.ptr) = Domain_prefix(heap, x.ptr)
                     /\ as_str(heap, y) = SubSeq(s, 1, Len(s) - 1))
    /\ [][(IsSome(view) /\ prev' = view /\ IsSome(view')
            /\ Unwrap(view').shape = Unwrap(view).shape) =>
              /\ ReadName(heap', Unwrap(view).ptr) = ReadName(heap, Unwrap(view).ptr)
              /\ as_str(heap', Unwrap(prev')) = as_str(heap, Unwrap(view))
              /\ heap' = heap]_vars

\* not_fqdn of the fully-qualified root view of a Domain with a prefix
C23_Witness ==
    /\ called = "Domain" /\ input = Join(<<L_a, L_a, L_com>>) \o <<DOT>>
    /\ IsSome(prev) /\ Unwrap(prev).shape = "Root"
    /\ IsSome(view) /\ Unwrap(view).shape = "Root"
    /\ as_str(heap, Unwrap(prev)) = Join(<<L_a, L_com>>) \o <<DOT>>
    /\ as_str(heap, Unwrap(view)) = Join(<<L_a, L_com>>)
    /\ name_len(Unwrap(view).ptr) = Len(input) - 1

\* The arguments of new_unchecked for a text that passes validation: the indices
\* of the separators of the working string and the text as it is
ValidatedInit(text) ==
    LET w == Working(text)
        before == SubSeq(w, 1, Len(w) - Len(MatchedSuffix(text)) - 1)
    IN  [kind |-> "name",
         root_separator_idx |-> IF HasDot(before) THEN Some(LastDot(before)) ELSE None,
         suffix_separator_idx |-> Len(before),
         domain |-> text]

\* The frame c is that of one pass through the engine for the text, made when
\* calls of the allocator had been made before
EnteredOnce(c, shape, text, ret) ==
    /\ FirstFailure(shape, text) = "none"
    /\ c.shape = shape
    /\ c.len = Len(text)
    /\ c.init = ValidatedInit(text)
    /\ c.trace \in {<<"layout", "alloc">>, <<"layout", "alloc", "retype", "init", "box">>}
    /\ IsSome(ret) <=> c.trace # <<"layout", "alloc">>

\* C27: a Domain::parse or Root::parse call that fails with a parse error, HasPrefix
\* included, never enters the allocation engine; a call that passes validation
\* enters it exactly once, after every check has passed, with the length of the
\* input and the header indices that validation computed.
C27_EngineAfterValidation ==
    called # "none" =>
        IF IsSome(ParseErr)
        THEN /\ cons[1] = IdleFrame
             /\ heap = EmptyHeap
             /\ boxes = {}
             /\ FirstFailure(called, input) # "none"
        ELSE /\ EnteredOnce(cons[1], called, input, result)
             /\ cons[1].before = {}
             /\ heap.nAlloc = 1

\* Root::parse returned HasPrefix for a text that passes every other check
C27_Witness ==
    /\ called = "Root" /\ ParseErrKind = "HasPrefix"
    /\ input = Join(<<L_a, L_a, L_co, L_uk>>)
    /\ cons[1] = IdleFrame /\ heap.nAlloc = 0

\* The root() view of a Domain reference
RootView(v) == [shape |-> "Root", ptr |-> Domain_root(v.ptr)]

\* C28: the root projection commutes with not_fqdn and agrees with the accessors
\* of the Domain: for every parsed Domain d, d.root().is_fqdn() = d.is_fqdn(),
\* d.not_fqdn().root().as_str() = d.root().not_fqdn().as_str(), and
\* d.root().suffix() = d.suffix(), the stored suffix index being read against the
\* same string in both shapes.
C28_RootCommutes ==
    /\ (ParsedOk /\ called = "Domain") =>
          LET d == Val
              r == RootView(d)
          IN  /\ is_fqdn(heap, r) = is_fqdn(heap, d)
              /\ as_str(heap, RootView(not_fqdn(heap, d)))
                    = as_str(heap, not_fqdn(heap, r))
              /\ RootView(not_fqdn(heap, d)) = not_fqdn(heap, r)
              /\ name_suffix(heap, r.ptr) = name_suffix(heap, d.ptr)
              /\ ReadName(heap, r.ptr) = ReadName(heap, d.ptr)
              /\ name_suffix(heap, r.ptr)
                    = SubSeq(as_str(heap, r),
                             Len(as_str(heap, r)) - Len(name_suffix(heap, d.ptr)) + 1,
                             Len(as_str(heap, r)))
    /\ (IsSome(prev) /\ IsSome(view) /\ boxes # {}
        /\ Unwrap(prev).shape = "Domain" /\ Unwrap(view).shape = "Root") =>
          /\ is_fqdn(heap, Unwrap(view)) = is_fqdn(heap, Unwrap(prev))
          /\ name_suffix(heap, Unwrap(view).ptr) = name_suffix(heap, Unwrap(prev).ptr)
          /\ as_str(heap, not_fqdn(heap, Unwrap(view)))
                = as_str(heap, RootView(not_fqdn(heap, Unwrap(prev))))

\* root() of the not_fqdn() view of a fully-qualified Domain with a prefix
C28_Witness ==
    /\ ParsedOk /\ called = "Domain"
    /\ input = Join(<<L_a, L_a, L_co, L_uk>>) \o <<DOT>>
    /\ prev = Some(not_fqdn(heap, Val))
    /\ view = Some(RootView(not_fqdn(heap, Val)))
    /\ as_str(heap, Unwrap(view)) = Join(<<L_a, L_co, L_uk>>)
    /\ name_suffix(heap, Unwrap(view).ptr) = Join(<<L_co, L_uk>>)

----------------------------------------------------------------------------
(* Properties of two parsed values, checked under SpecTwo *)

\* The second parse call returned, and this is what it returned
SecondRet == Unwrap(Unwrap(again).ret)

\* The reference to the value the second parse call returned
Second == [shape |-> Unwrap(again).shape, ptr |-> SecondRet.val]

\* The second call was of this kind and the process was not terminated in it
SecondWas(k) == IsSome(again) /\ Unwrap(again).kind = k /\ IsSome(Unwrap(again).ret)

\* C29: for every parsed Domain d, Root::parse(d.root().as_str()) succeeds, and the
\* Root it returns compares equal to d.root() and has the same suffix(); two
\* Domains with different prefixes and the same root and suffix have equal root()
\* views.
C29_RootReparse ==
    /\ SecondWas("root") =>
          /\ Unwrap(again).input = as_str(heap, RootView(Val))
          /\ SecondRet.ok
          /\ name_eq(heap, Second, RootView(Val))
          /\ name_cmp(heap, Second, RootView(Val)) = "Equal"
          /\ name_hash(heap, Second) = name_hash(heap, RootView(Val))
          /\ name_suffix(heap, Second.ptr) = name_suffix(heap, RootView(Val).ptr)
          /\ name_suffix(heap, Second.ptr) = name_suffix(heap, Val.ptr)
          /\ Second.ptr.addr # Val.ptr.addr
    /\ SecondWas("prefixed") =>
          /\ SecondRet.ok
          /\ Domain_prefix(heap, Second.ptr) # Domain_prefix(heap, Val.ptr)
                <=> ~name_eq(heap, Second, Val)
          /\ Domain_prefix(heap, Second.ptr) = Some(L_zz)
          /\ name_suffix(heap, Second.ptr) = name_suffix(heap, Val.ptr)
          /\ name_eq(heap, RootView(Second), RootView(Val))
          /\ name_cmp(heap, RootView(Second), RootView(Val)) = "Equal"

\* Root::parse of the text of the root of a fully-qualified Domain that has a
\* prefix returned a Root in a block of its own
C29_Witness ==
    /\ SecondWas("root") /\ SecondRet.ok
    /\ input = Join(<<L_a, L_a, L_co, L_uk>>) \o <<DOT>>
    /\ Unwrap(again).input = Join(<<L_a, L_co, L_uk>>) \o <<DOT>>
    /\ as_str(heap, Second) = Join(<<L_a, L_co, L_uk>>) \o <<DOT>>
    /\ Cardinality(boxes) = 2

\* C30: equality, ordering and hashing of Domain and of Root are those of
\* as_str(): two values are equal iff their as_str() are equal, so the values
\* parsed from s and from s with a '.' appended are unequal while their
\* not_fqdn() views are equal, and equal values have equal hashes and compare as
\* Equal.
C30_EqOrdHashByText ==
    (IsSome(again) /\ IsSome(Unwrap(again).ret) /\ SecondRet.ok
     /\ Second.shape = called) =>
        /\ name_eq(heap, Val, Second) <=> input = Unwrap(again).input
        /\ name_eq(heap, Val, Second) <=> name_cmp(heap, Val, Second) = "Equal"
        /\ name_eq(heap, Val, Second) => name_hash(heap, Val) = name_hash(heap, Second)
        /\ name_hash(heap, Val) = name_hash(heap, Second) => name_eq(heap, Val, Second)
        /\ name_cmp(heap, Val, Second) = "Less" <=> name_cmp(heap, Second, Val) = "Greater"
        /\ Unwrap(again).kind = "dotted" =>
              /\ ~name_eq(heap, Val, Second)
              /\ name_cmp(heap, Val, Second) # "Equal"
              /\ name_eq(heap, not_fqdn(heap, Val), not_fqdn(heap, Second))
              /\ name_cmp(heap, not_fqdn(heap, Val), not_fqdn(heap, Second)) = "Equal"
              /\ name_hash(heap, not_fqdn(heap, Val))
                    = name_hash(heap, not_fqdn(heap, Second))
        /\ Unwrap(again).kind = "same" =>
              /\ Second.ptr.addr # Val.ptr.addr
              /\ name_eq(heap, Val, Second)
              /\ name_cmp(heap, Val, Second) = "Equal"
              /\ name_hash(heap, Val) = name_hash(heap, Second)

\* Domains parsed from a text and from the same text with a '.' appended
C30_Witness ==
    /\ SecondWas("dotted") /\ SecondRet.ok /\ called = "Domain"
    /\ input = Join(<<L_a, L_a, L_com>>)
    /\ as_str(heap, Second) = Join(<<L_a, L_a, L_com>>) \o <<DOT>>
    /\ name_cmp(heap, Val, Second) = "Less"

----------------------------------------------------------------------------
(* Properties of the allocation engine, checked under SpecAlloc *)

\* The frame of p has a layout of size zero
ZeroSized(p) == IsSome(cons[p].layout) /\ Unwrap(cons[p].layout).size = 0

\* The frame of p has a layout of non-zero size
Sized(p) == IsSome(cons[p].layout) /\ Unwrap(cons[p].layout).size # 0

\* try_new_dst of p has returned r
Returned(p) == cons[p].pc = "done" /\ IsSome(cons[p].ret)

\* The initializer of p was called and returned an error
InitFailed(p) == IsSome(cons[p].initres) /\ ~Unwrap(cons[p].initres).ok

\* The blocks somebody is responsible for: those of the boxes held, and those of
\* the calls that have allocated and not yet failed.
Held ==
    {b.ptr.addr : b \in {x \in boxes : layout(x.shape, x.ptr.len).val.size # 0}}
    \cup {Unwrap(cons[p].raw) :
            p \in {q \in Procs : /\ Sized(q) /\ IsSome(cons[q].raw)
                                 /\ ~(Returned(q) /\ ~Unwrap(cons[q].ret).ok)}}

\* C5: a try_new_dst whose initializer returns the error e returns exactly
\* Init(e) and no value, and when it returns every block it obtained has been
\* released: the outstanding allocations are those somebody holds, and the same
\* as before the call when no other thread has run.
C5_InitErrorNoLeak ==
    /\ heap.live = Held
    /\ \A p \in Procs :
          (Returned(p) /\ InitFailed(p)) =>
              /\ cons[p].ret = Some(Err([kind |-> "Init", e |-> cons[p].init.err]))
              /\ (\A q \in Procs \ {p} : cons[q].runs = 0) => heap.live = cons[p].before

\* a call with a layout of non-zero size returned the error of its initializer
C5_Witness ==
    \E p \in Procs :
        /\ Returned(p) /\ InitFailed(p) /\ Sized(p)
        /\ cons[p].init.err = "E2"
        /\ cons[p].trace = <<"layout", "alloc", "retype", "init", "dealloc", "err">>

\* The steps of try_new_dst after the layout is known
EngineSteps == {"alloc", "retype", "init", "finish"}

\* C6: when layout(len) has size zero, construction never calls alloc or dealloc,
\* on the success path and on the initializer-error path alike; the initializer
\* receives a non-null pointer whose address is the alignment of the layout, and a
\* successful construction yields a value whose len() is the requested len.
C6_ZeroSizeNoAllocator ==
    /\ [](\A p \in Procs :
            ZeroSized(p) =>
                /\ IsSome(cons[p].ptr) =>
                      /\ Unwrap(cons[p].ptr).addr = Unwrap(cons[p].layout).align
                      /\ Unwrap(cons[p].ptr).addr # NULL
                /\ (Returned(p) /\ Unwrap(cons[p].ret).ok) =>
                      /\ Unwrap(cons[p].ret).val.len = cons[p].len
                      /\ Len(ReadValue(heap, cons[p].shape, Unwrap(cons[p].ret).val))
                            = cons[p].len)
    /\ [][\A p \in Procs :
            (ZeroSized(p) /\ cons[p].pc \in EngineSteps /\ cons'[p] # cons[p]) =>
                /\ heap'.nAlloc = heap.nAlloc
                /\ heap'.nDealloc = heap.nDealloc
                /\ heap'.live = heap.live]_vars

\* one call of size zero returned a value, another the error of its initializer
C6_Witness ==
    \E p, q \in Procs :
        /\ ZeroSized(p) /\ Returned(p) /\ Unwrap(cons[p].ret).ok
        /\ cons[p].shape = "u16s"
        /\ ZeroSized(q) /\ Returned(q) /\ InitFailed(q)
        /\ heap.nAlloc = 0 /\ heap.nDealloc = 0

\* C7: for any shape and any value v, constructing a value of length v.len() with
\* the initializer v.clone_to_raw yields a value whose header fields and tail
\* elements are those of v and whose len() is v.len(); v itself is unchanged.
C7_CloneEqual ==
    \A p \in Procs :
        (Returned(p) /\ Unwrap(cons[p].ret).ok) =>
            LET new == Unwrap(cons[p].ret).val
                init == cons[p].init
            IN  /\ init.kind = "clone" =>
                      /\ ReadValue(heap, cons[p].shape, new)
                            = ReadValue(heap, cons[p].shape, init.src)
                      /\ new.len = init.src.len
                      /\ ReadValue(heap, cons[p].shape, init.src) = Unwrap(cons[p].srcval)
                /\ init.kind = "elems" =>
                      /\ ReadValue(heap, cons[p].shape, new) = init.elems
                      /\ new.len = Len(init.elems)

\* a Type with a tail was cloned into a new block
C7_Witness ==
    \E p \in Procs :
        /\ Returned(p) /\ Unwrap(cons[p].ret).ok
        /\ cons[p].init.kind = "clone" /\ cons[p].shape = "Type"
        /\ cons[p].len = MaxTail
        /\ Unwrap(cons[p].ret).val.addr # cons[p].init.src.addr

\* The call of p is in progress or has returned, and layout(len) of its shape fails
LayoutFails(p) == cons[p].pc # "idle" /\ ~layout(cons[p].shape, cons[p].len).ok

\* C15: if layout(len) fails, construction returns the layout error immediately:
\* the step after the layout computation is the return of Layout(e), the allocator
\* is not called, the initializer is not invoked and no value is returned.
C15_LayoutErrorFirst ==
    /\ [](\A p \in Procs :
            (LayoutFails(p) /\ cons[p].pc # "layout") =>
                /\ cons[p].pc = "done"
                /\ cons[p].ret = Some(Err([kind |-> "Layout",
                                           e |-> layout(cons[p].shape, cons[p].len).err]))
                /\ cons[p].raw = None /\ cons[p].ptr = None /\ cons[p].initres = None
                /\ cons[p].trace = <<"layout">>)
    /\ [][\A p \in Procs :
            (LayoutFails(p) /\ cons'[p] # cons[p]) =>
                /\ heap' = heap
                /\ boxes' = boxes
                /\ cons'[p].pc = IF cons[p].pc = "layout" THEN "done" ELSE "idle"]_vars

\* a call with a length whose layout overflows returned the layout error while the
\* other thread is in a call that holds a block
C15_Witness ==
    \E p, q \in Procs :
        /\ Returned(p) /\ cons[p].len = HugeLen
        /\ cons[p].ret = Some(Err([kind |-> "Layout", e |-> "LayoutError"]))
        /\ Sized(q) /\ IsSome(cons[q].raw) /\ cons[q].pc = "init"
        /\ heap.nAlloc = 1

\* The orders in which one call of try_new_dst can take its steps, to its return
FullTraces ==
    {<<"layout">>}
    \cup {<<"layout", x, "retype", "init">> \o end :
            x \in {"alloc", "dangling"},
            end \in {<<"box">>, <<"err">>, <<"dealloc", "err">>}}

IsPrefix(s, t) == Len(s) <= Len(t) /\ SubSeq(t, 1, Len(s)) = s

Occurs(x, t) == Cardinality({i \in 1..Len(t) : t[i] = x})

\* C20: within one construction the steps occur strictly in the order layout,
\* allocate (or synthesize the zero-size pointer), retype, initialize, then
\* finalize or roll back; the initializer is invoked exactly once on every path
\* where a pointer was obtained, and the value is wrapped as owning only after the
\* initializer returned Ok.
C20_StepOrder ==
    /\ [](\A p \in Procs :
            LET c == cons[p]
            IN  /\ \E t \in FullTraces : IsPrefix(c.trace, t)
                /\ IsSome(c.layout) <=> (Occurs("layout", c.trace) = 1 /\ c.pc # "done")
                                        \/ Len(c.trace) > 1
                /\ IsSome(c.raw) <=>
                      Occurs("alloc", c.trace) + Occurs("dangling", c.trace) = 1
                         /\ c.pc # "aborted"
                /\ IsSome(c.ptr) <=> Occurs("retype", c.trace) = 1
                /\ IsSome(c.initres) <=> Occurs("init", c.trace) = 1
                /\ Occurs("init", c.trace) <= 1
                /\ (c.pc = "done" /\ IsSome(c.raw)) => Occurs("init", c.trace) = 1
                /\ Occurs("box", c.trace) = 1 <=>
                      /\ IsSome(c.ret) /\ Unwrap(c.ret).ok
                      /\ IsSome(c.initres) /\ Unwrap(c.initres).ok
                /\ Occurs("err", c.trace) = 1 <=>
                      /\ IsSome(c.ret) /\ ~Unwrap(c.ret).ok
                      /\ IsSome(c.initres) /\ ~Unwrap(c.initres).ok)
    /\ [][\A p \in Procs :
            (cons'[p] # cons[p] /\ cons[p].pc \notin {"idle", "done"}) =>
                /\ IsPrefix(cons[p].trace, cons'[p].trace)
                /\ Len(cons'[p].trace) > Len(cons[p].trace)]_vars

\* one call ran layout, dangling pointer, retype, init and wrapped the value, the
\* other ran layout, alloc, retype, init and rolled back
C20_Witness ==
    \E p, q \in Procs :
        /\ cons[p].pc = "done"
        /\ cons[p].trace = <<"layout", "dangling", "retype", "init", "box">>
        /\ cons[q].pc = "done"
        /\ cons[q].trace = <<"layout", "alloc", "retype", "init", "dealloc", "err">>
        /\ cons[q].shape = "Type"

\* C21: when the allocator returns no memory for a request of non-zero size,
\* construction ends the process through the allocation-error handler: the
\* initializer is never called, no dealloc is issued, neither a value nor a checked
\* error is returned, and no thread takes a step afterwards.
C21_AllocFailureAborts ==
    /\ [](\A p \in Procs :
            cons[p].pc = "aborted" =>
                /\ Sized(p)
                /\ ~IsSome(cons[p].raw) /\ ~IsSome(cons[p].ptr)
                /\ ~IsSome(cons[p].initres) /\ ~IsSome(cons[p].ret)
                /\ Occurs("init", cons[p].trace) = 0
                /\ Occurs("dealloc", cons[p].trace) = 0)
    /\ [][\A p \in Procs :
            (/\ cons[p].pc = "alloc" /\ Sized(p)
             /\ cons'[p] # cons[p] /\ heap'.live = heap.live) =>
                /\ cons'[p].pc = "aborted"
                /\ heap'.nAlloc = heap.nAlloc + 1
                /\ heap'.nDealloc = heap.nDealloc
                /\ heap'.mem = heap.mem
                /\ boxes' = boxes]_vars
    /\ [][\A p \in Procs : cons[p].pc # "aborted"]_vars

\* the allocator returned null to one call while the other thread holds a block in
\* the middle of its own call
C21_Witness ==
    \E p, q \in Procs :
        /\ cons[p].pc = "aborted" /\ cons[p].shape = "Type"
        /\ cons[p].trace = <<"layout", "alloc">>
        /\ Sized(q) /\ IsSome(cons[q].raw) /\ cons[q].pc = "finish"
        /\ heap.nAlloc = 2 /\ heap.nDealloc = 0

\* The call of p has obtained a block from the allocator and not released it
Holding(p) ==
    /\ Sized(p) /\ IsSome(cons[p].raw)
    /\ ~(Returned(p) /\ ~Unwrap(cons[p].ret).ok)

\* The boxes whose value occupies a block: a value of size zero lies at the
\* address that is its alignment, which is no address of the allocator
SizedBoxes == {x \in boxes : x.ptr.addr \in Addrs}

\* C25: in every interleaving of concurrent constructions, each construction
\* writes to, releases and returns only the block it obtained from the allocator
\* itself: no block is with two calls or two values at once, every block held is
\* allocated, a block is written only by the initializer of the call that obtained
\* it, released once and only by that call or by the drop of the value that owns
\* it, and the value returned lies in the block of the call that returns it.
C25_OwnBlockOnly ==
    /\ [](/\ \A p, q \in Procs :
                (p # q /\ Holding(p) /\ Holding(q)) => cons[p].raw # cons[q].raw
          /\ \A p \in Procs : \A b \in SizedBoxes :
                Holding(p) => Unwrap(cons[p].raw) # b.ptr.addr
          /\ \A b1, b2 \in SizedBoxes : b1.ptr.addr = b2.ptr.addr => b1 = b2
          /\ \A p \in Procs : Holding(p) => Unwrap(cons[p].raw) \in heap.live
          /\ \A b \in SizedBoxes : b.ptr.addr \in heap.live
          /\ DOMAIN heap.mem \subseteq heap.live)
    /\ [][/\ \A a \in heap.live \ heap'.live :
                \/ \E p \in Procs : /\ cons'[p] # cons[p] /\ cons[p].pc = "finish"
                                    /\ cons[p].raw = Some(a)
                \/ /\ cons' = cons
                   /\ \E b \in boxes \ boxes' : b.ptr.addr = a /\ cons[b.owner].pc = "idle"
          /\ heap'.nDealloc - heap.nDealloc = Cardinality(heap.live \ heap'.live)
          /\ \A a \in (heap.live \cap heap'.live) :
                CellsAt(heap', a) # CellsAt(heap, a) =>
                    \E p \in Procs : /\ cons'[p] # cons[p] /\ cons[p].pc = "init"
                                     /\ cons[p].raw = Some(a)
          /\ \A a \in heap'.live \ heap.live :
                \E p \in Procs : /\ cons[p].pc = "alloc" /\ cons'[p].raw = Some(a)
                                 /\ \A q \in Procs \ {p} : cons'[q] = cons[q]
          /\ \A b \in boxes' \ boxes :
                /\ cons[b.owner].pc = "done"
                /\ cons[b.owner].ret = Some(Ok(b.ptr))
                /\ b \in SizedBoxes' => cons[b.owner].raw = Some(b.ptr.addr)]_vars

\* one thread's call has released its block after the error of its initializer while
\* the other thread, which allocated in between, has returned a value in its own
C25_Witness ==
    \E p, q \in Procs :
        /\ Returned(p) /\ InitFailed(p) /\ Sized(p)
        /\ Returned(q) /\ Unwrap(cons[q].ret).ok /\ Sized(q)
        /\ cons[p].raw # cons[q].raw
        /\ heap.live = {Unwrap(cons[q].raw)}
        /\ heap.nAlloc = 2 /\ heap.nDealloc = 1

----------------------------------------------------------------------------
(* Properties of new_dst, checked under SpecNew *)

\* C14: new_dst delegates to try_new_dst with an initializer that always returns
\* Ok: for every len it returns Ok(value) exactly when try_new_dst would, with the
\* same value after the same steps; it maps a layout failure to
\* AllocDstError::Layout carrying the same layout error; and no initializer error
\* is produced.
C14_NewDstDelegates ==
    cons[1].runs > 0 =>
        LET n == cons[1].ret
            t == cons[2].ret
        IN  /\ [cons[1] EXCEPT !.ret = None, !.runs = 0] = [cons[2] EXCEPT !.ret = None]
            /\ IsSome(n) <=> IsSome(t)
            /\ IsSome(t) =>
                  IF Unwrap(t).ok
                  THEN n = t
                  ELSE /\ Unwrap(t).err.kind = "Layout"
                       /\ n = Some(Err([kind |-> "AllocDstError::Layout",
                                        e |-> Unwrap(t).err.e]))
            /\ IsSome(cons[2].initres) => Unwrap(cons[2].initres).ok

\* new_dst of a length whose layout overflows returned the layout error, while the
\* thread holds the value of an earlier call
C14_Witness ==
    /\ cons[1].runs > 1 /\ boxes # {}
    /\ cons[1].len = HugeLen
    /\ cons[1].ret = Some(Err([kind |-> "AllocDstError::Layout", e |-> "LayoutError"]))
    /\ cons[2].ret = Some(Err([kind |-> "Layout", e |-> "LayoutError"]))

\* The smallest multiple of align that is not below end
FirstMultiple(end, align) == CHOOSE o \in end..(end + align - 1) : o % align = 0

\* The offsets of fields laid out one after the other, each at the smallest
\* multiple of its alignment not below the end of the one before
RECURSIVE NaturalOffsets(_, _, _)
NaturalOffsets(fields, i, end) ==
    IF i > Len(fields) THEN <<>>
    ELSE <<FirstMultiple(end, fields[i].align)>>
         \o NaturalOffsets(fields, i + 1,
                           FirstMultiple(end, fields[i].align) + fields[i].size)

\* The natural layout of a header followed by a tail of len elements: the offsets
\* of the fields, the largest alignment, and the end of the tail rounded up to it
Natural(header, elem, len) ==
    LET fields == Append(header, Layout(elem.size * len, elem.align))
        offs == NaturalOffsets(fields, 1, 0)
        align == SetMax({fields[i].align : i \in 1..Len(fields)})
    IN  [offsets |-> offs, align |-> align,
         size |-> FirstMultiple(offs[Len(fields)] + elem.size * len, align)]

\* The number of bytes of the cell at offset o of a value with this natural layout
WidthAt(header, elem, nat, o) ==
    IF o >= nat.offsets[Len(header) + 1] THEN elem.size
    ELSE header[CHOOSE i \in 1..Len(header) :
                    nat.offsets[i] <= o /\ o < nat.offsets[i + 1]].size

\* The lengths the layout functions are compared on
SmallLens == 0..(2 * MaxTail)

TypeHeader == <<Layout_i16, Layout_usize, Layout_u32>>

NameHeader == <<Layout_opt_usize, Layout_usize>>

\* C24: for a header-plus-tail shape, layout(len) computed by extending field by
\* field depends on len alone and is the natural layout of the value: every
\* field's offset is the smallest multiple of its alignment not below the end of
\* the field before, the alignment is the largest field alignment, the size is the
\* end of the tail rounded up to it, and every byte written by the initializer or
\* by clone_to_raw lies in [0, size).
C24_NaturalLayout ==
    /\ \A n \in SmallLens :
          LET lo == layout_offsets(n)
              nat == Natural(TypeHeader, Layout_i128, n)
          IN  /\ lo.ok
              /\ lo.val[2] = nat.offsets
              /\ lo.val[1] = Layout(nat.size, nat.align)
              /\ layout("Type", n) = Ok(lo.val[1])
              /\ for_value_Type(n) = lo.val[1]
    /\ \A n \in SmallLens :
          LET lo == name_layout_offsets(n)
              nat == Natural(NameHeader, Layout_u8, n)
          IN  /\ lo.ok
              /\ lo.val[2] = nat.offsets
              /\ lo.val[1] = Layout(nat.size, nat.align)
              /\ layout("Domain", n) = Ok(lo.val[1])
              /\ layout("Root", n) = Ok(lo.val[1])
    /\ (cons[1].shape = "Type" /\ IsSome(cons[1].layout) /\ cons[1].len \in SmallLens) =>
          LET nat == Natural(TypeHeader, Layout_i128, cons[1].len)
              l == Unwrap(cons[1].layout)
          IN  /\ l = Layout(nat.size, nat.align)
              /\ (\E b \in boxes : Some(b.ptr) = cons[1].ptr) =>
                    /\ cons[1].initres = Some(Ok(<<>>))
                    /\ \A o \in DOMAIN CellsAt(heap, Unwrap(cons[1].raw)) :
                          /\ 0 <= o
                          /\ o + WidthAt(TypeHeader, Layout_i128, nat, o) <= l.size
                    /\ DOMAIN CellsAt(heap, Unwrap(cons[1].raw))
                          = {nat.offsets[i] : i \in 1..3}
                            \cup {nat.offsets[4] + Layout_i128.size * (i - 1) :
                                      i \in 1..cons[1].len}

\* clone_to_raw of a Type with a tail of MaxTail elements has written the three
\* header fields and the tail of the copy, in a block of the size of the layout
C24_Witness ==
    /\ cons[1].shape = "Type" /\ cons[1].len = MaxTail /\ cons[1].pc = "done"
    /\ cons[1].init.kind = "clone"
    /\ Unwrap(cons[1].layout).size = TypeFieldOffsets[4] + Layout_i128.size * MaxTail
    /\ Cardinality(DOMAIN CellsAt(heap, Unwrap(cons[1].raw))) = 3 + MaxTail
    /\ \E b \in boxes : b.shape = "Type" /\ b.ptr = cons[1].init.src
    /\ \E b \in boxes : b.shape = "Type" /\ Some(b.ptr) = cons[1].ptr

----------------------------------------------------------------------------
(* Properties of layout, checked under SpecLayout *)

\* The fields before the tail of each shape
HeaderOf(shape) ==
    IF IsSlice(shape) THEN <<>>
    ELSE IF shape = "Type" THEN TypeHeader
    ELSE NameHeader

\* The offset of the tail and the alignment of a value of the shape
TailOffset(shape) == Natural(HeaderOf(shape), TailElem(shape), 0).offsets[Len(HeaderOf(shape)) + 1]

AlignOf(shape) == Natural(HeaderOf(shape), TailElem(shape), 0).align

\* The largest size a layout of this alignment can have: rounded up to the
\* alignment it must not exceed isize::MAX
LargestSize(align) == ISIZE_MAX - (ISIZE_MAX % align)

\* Header, padding and n tail elements do not exceed the largest size
Fits(shape, n) ==
    \/ TailElem(shape).size = 0
    \/ n <= (LargestSize(AlignOf(shape)) - TailOffset(shape)) \div TailElem(shape).size

\* C26: layout(len) fails with a LayoutError exactly when the size arithmetic
\* (element size times len, plus header and padding) exceeds the largest size a
\* layout can have, and otherwise returns the exact size, not wrapped around and
\* not smaller than the header plus the tail of len elements.
C26_LayoutOverflow ==
    cons[1].pc # "idle" =>
        LET shape == cons[1].shape
            n == cons[1].len
        IN  IF Fits(shape, n)
            THEN /\ IsSome(cons[1].layout) /\ cons[1].ret = None
                 /\ Unwrap(cons[1].layout)
                        = Layout(Natural(HeaderOf(shape), TailElem(shape), n).size,
                                 AlignOf(shape))
                 /\ Unwrap(cons[1].layout).size >= TailOffset(shape) + TailElem(shape).size * n
                 /\ Unwrap(cons[1].layout).size <= ISIZE_MAX
            ELSE /\ cons[1].layout = None
                 /\ cons[1].ret = Some(Err([kind |-> "Layout", e |-> "LayoutError"]))

\* layout of a Type failed for the smallest length whose size does not fit
C26_Witness ==
    /\ cons[1].shape = "Type" /\ cons[1].pc = "done"
    /\ cons[1].ret = Some(Err([kind |-> "Layout", e |-> "LayoutError"]))
    /\ ~Fits("Type", cons[1].len) /\ Fits("Type", cons[1].len - 1)
    /\ cons[1].len < HugeLen

----------------------------------------------------------------------------
(* Properties of ClientBuilder, checked under SpecBuilder *)

\* The setter calls made that set the field f: their positions in the history
Setting(f) ==
    {i \in 1..Len(builder.calls) :
        \/ builder.calls[i].f = f
        \/ /\ f = "endpoint" /\ builder.calls[i].f = "endpoint_if_some"
           /\ IsSome(builder.calls[i].arg)}

\* The value the last of these calls was given
LastSet(f) ==
    LET call == builder.calls[SetMax(Setting(f))]
    IN  IF call.f = "endpoint_if_some" THEN Unwrap(call.arg) ELSE call.arg

\* C17: after any sequence of setter calls, build() fails with
\* MissingField("apikey") if apikey was never set, else with
\* MissingField("secretapikey") if secretapikey was never set, else succeeds
\* with the most recently set endpoint, or the default endpoint when none was
\* set; endpoint_if_some(None) leaves the endpoint unchanged.
C17_BuildChecksFields ==
    /\ IsSome(builder.built) =>
          Unwrap(builder.built) =
             IF Setting("apikey") = {}
             THEN Err([kind |-> "MissingField", field |-> "apikey"])
             ELSE IF Setting("secretapikey") = {}
             THEN Err([kind |-> "MissingField", field |-> "secretapikey"])
             ELSE Ok([endpoint |-> IF Setting("endpoint") = {} THEN DefaultUrl
                                   ELSE LastSet("endpoint"),
                      apikey |-> LastSet("apikey"),
                      secretapikey |-> LastSet("secretapikey")])
    /\ IsSome(builder.b) =>
          Unwrap(builder.b).endpoint =
             IF Setting("endpoint") = {} THEN None ELSE Some(LastSet("endpoint"))

\* build() succeeded with the endpoint set before a call of endpoint_if_some(None)
C17_Witness ==
    /\ IsSome(builder.built) /\ Unwrap(builder.built).ok
    /\ Unwrap(builder.built).val.endpoint = MockUrl
    /\ Len(builder.calls) = 4
    /\ builder.calls[1] = [f |-> "endpoint", arg |-> MockUrl]
    /\ builder.calls[2] = [f |-> "endpoint_if_some", arg |-> None]

----------------------------------------------------------------------------
(* Properties of the Client, checked under SpecClient *)

\* The labels of the name of the last operation, and of its public suffix
OpLabels == Len(split_dot(Unwrap(client.op).domain.full))
OpSuffixLabels ==
    Len(split_dot(Unwrap(psl_suffix(Unwrap(client.op).domain.full)).bytes))

\* C16: delete_dns and retrieve_dns, called with a domain that has a prefix,
\* return ClientError::Domain(HasPrefix) carrying the domain text; a domain
\* without a root makes every DNS operation return MissingRoot; in both cases no
\* URL is built and no HTTP request is sent.
C16_DomainErrorsBeforeRequest ==
    IsSome(client.op) =>
        LET op == Unwrap(client.op)
            out == Unwrap(client.out)
        IN  /\ (op.name \in {"delete_dns", "retrieve_dns"} /\ OpLabels > OpSuffixLabels + 1) =>
                  /\ out.ret = Err([kind |-> "Domain",
                                    e |-> [kind |-> "HasPrefix", domain |-> op.domain.full]])
                  /\ out.urls = <<>> /\ out.reqs = <<>>
            /\ OpLabels = OpSuffixLabels =>
                  /\ out.ret = Err([kind |-> "Domain",
                                    e |-> [kind |-> "MissingRoot", domain |-> op.domain.full]])
                  /\ out.urls = <<>> /\ out.reqs = <<>>

\* retrieve_dns of a name with a prefix returned HasPrefix
C16_Witness ==
    /\ IsSome(client.op)
    /\ Unwrap(client.op).name = "retrieve_dns"
    /\ Unwrap(client.op).domain = Name(Join(<<L_co, L_a, L_co, L_uk>>))
    /\ Unwrap(client.out).ret.err.kind = "Domain"
    /\ Unwrap(client.out).ret.err.e.kind = "HasPrefix"

====
